---------------------------- MODULE Spec2Model ----------------------------
(***************************************************************************)
(* Model of the live transcription pipeline of app/live_transcriber.py     *)
(* (class LiveTranscriber) together with the microphone producer of        *)
(* app/audio_capture.py (class MicrophoneCapture).                         *)
(*                                                                         *)
(* Threads: the capture thread of each MicrophoneCapture object, the       *)
(* Collector and the Worker thread of each session, and the caller         *)
(* threads that invoke start() and stop().  A step of the model is one     *)
(* access to shared state: one queue operation, one "with _ring_lock"      *)
(* block, one read or write of _running / _stop_event.                     *)
(*                                                                         *)
(* Audio data.  A byte string (bytes / bytearray) is a sequence of runs    *)
(* [lo, hi, amp]: the bytes lo..hi-1 of the microphone stream, whose       *)
(* int16 samples all have absolute value amp.  Runs that continue one      *)
(* another are merged, so equal byte strings have equal representations.   *)
(* Chunks, window sizes and overlap sizes are whole samples (SampWidth     *)
(* bytes), as int(sample_rate * seconds * sampwidth_bytes * channels)      *)
(* gives for the configurations considered.                                *)
(***************************************************************************)
EXTENDS Integers, Sequences, FiniteSets, TLC

\* ------------------------------------------------------------------
\* Program constants
\* ------------------------------------------------------------------

\* LiveParams.sampwidth_bytes (int16)
SampWidth == 2

\* LiveParams.silence_rms_threshold
SilenceRmsThreshold == 80

\* LiveParams.silence_peak_threshold
SilencePeakThreshold == 900

\* the hard-coded start gate of _transcribe_loop: peak < 1500 and rms < 120
StartPeakThreshold == 1500

StartRmsThreshold == 120

\* ------------------------------------------------------------------
\* Byte strings
\* ------------------------------------------------------------------

Min(a, b) == IF a < b THEN a ELSE b

Max(a, b) == IF a > b THEN a ELSE b

Run(lo, hi, amp) == [lo |-> lo, hi |-> hi, amp |-> amp]

\* len(b)
RECURSIVE BLen(_)
BLen(b) == IF b = <<>> THEN 0 ELSE (b[1].hi - b[1].lo) + BLen(Tail(b))

\* a + b (bytearray.extend): concatenation, merging a run with its
\* continuation
BConcat(a, b) ==
    IF a = <<>> THEN b
    ELSE IF b = <<>> THEN a
    ELSE LET x == a[Len(a)]
             y == b[1]
         IN  IF x.hi = y.lo /\ x.amp = y.amp
             THEN SubSeq(a, 1, Len(a) - 1) \o <<Run(x.lo, y.hi, x.amp)>> \o Tail(b)
             ELSE a \o b

\* the last n bytes of b, for 0 <= n <= len(b)
RECURSIVE BLast(_, _)
BLast(b, n) ==
    IF n = 0 \/ b = <<>> THEN <<>>
    ELSE LET x == b[Len(b)]
             w == x.hi - x.lo
         IN  IF w >= n THEN <<Run(x.hi - n, x.hi, x.amp)>>
             ELSE BLast(SubSeq(b, 1, Len(b) - 1), n - w) \o <<x>>

\* b[-n:] for n >= 0.  Python reads -0 as 0, so b[-0:] is all of b; an n
\* beyond len(b) gives all of b as well.
SliceTail(b, n) == IF n = 0 \/ n >= BLen(b) THEN b ELSE BLast(b, n)

\* the set of stream offsets of the bytes of b
RECURSIVE BOffsets(_)
BOffsets(b) ==
    IF b = <<>> THEN {} ELSE (b[1].lo .. (b[1].hi - 1)) \cup BOffsets(Tail(b))

\* ------------------------------------------------------------------
\* Loudness (np.frombuffer(..., dtype=np.int16), peak and RMS)
\* ------------------------------------------------------------------

\* samples.size
NSamples(b) == BLen(b) \div SampWidth

\* int(np.max(np.abs(samples))) if samples.size else 0
RECURSIVE Peak(_)
Peak(b) == IF b = <<>> THEN 0 ELSE Max(b[1].amp, Peak(Tail(b)))

\* sum of the squared samples
RECURSIVE SumSq(_)
SumSq(b) ==
    IF b = <<>> THEN 0
    ELSE ((b[1].hi - b[1].lo) \div SampWidth) * b[1].amp * b[1].amp + SumSq(Tail(b))

\* rms < thr, for rms = sqrt(mean(samples ** 2)) (0.0 when there is no
\* sample): the mean square is compared with thr^2.  When every sample is
\* on one side of thr so is the mean, which keeps the sums small for long
\* buffers.
RmsBelow(b, thr) ==
    IF NSamples(b) = 0 THEN 0 < thr
    ELSE IF \A i \in 1..Len(b) : b[i].amp >= thr THEN FALSE
    ELSE IF \A i \in 1..Len(b) : b[i].amp < thr THEN TRUE
    ELSE SumSq(b) < thr * thr * NSamples(b)

\* not Start-Gate: "if peak < 1500 and rms < 120: continue" while the latch
\* _started_emitting is closed
StartGateSkips(started, b) ==
    /\ ~started
    /\ Peak(b) < StartPeakThreshold
    /\ RmsBelow(b, StartRmsThreshold)

\* a variant of SilenceGateSkips that tests the RMS alone
SilenceGateRmsOnly(b) == NSamples(b) > 0 /\ RmsBelow(b, SilenceRmsThreshold)

\* Silence-Gate of the Worker
SilenceGateSkips(b) ==
    /\ NSamples(b) > 0
    /\ RmsBelow(b, SilenceRmsThreshold)
    /\ Peak(b) < SilencePeakThreshold

\* flush_rms_thr = silence_rms_threshold * 0.8
FlushRmsThreshold == (SilenceRmsThreshold * 8) \div 10

\* flush_peak_thr = int(silence_peak_threshold * 1.3)
FlushPeakThreshold == (SilencePeakThreshold * 13) \div 10

\* Flush-Silence-Gate of stop()
FlushTooSilent(b) ==
    /\ RmsBelow(b, FlushRmsThreshold)
    /\ Peak(b) < FlushPeakThreshold

\* ------------------------------------------------------------------
\* Segment texts and LiveTranscriber._on_segment
\* ------------------------------------------------------------------

\* A text (str) is a sequence of characters, each a string of length one.

\* the characters str.strip() removes (ASCII white space)
Whitespace == {" ", "\t", "\n", "\r", "\f"}

\* the characters of .strip(" \t\r\n.,!?;:\"'()[]{}")
DedupeStripChars ==
    {" ", "\t", "\r", "\n", ".", ",", "!", "?", ";", ":", "\"", "'",
     "(", ")", "[", "]", "{", "}"}

UpperLetters ==
    <<"A", "B", "C", "D", "E", "F", "G", "H", "I", "J", "K", "L", "M",
      "N", "O", "P", "Q", "R", "S", "T", "U", "V", "W", "X", "Y", "Z">>

LowerLetters ==
    <<"a", "b", "c", "d", "e", "f", "g", "h", "i", "j", "k", "l", "m",
      "n", "o", "p", "q", "r", "s", "t", "u", "v", "w", "x", "y", "z">>

\* str.lower(), one character
LowerChar(c) ==
    IF \E k \in 1..Len(UpperLetters) : UpperLetters[k] = c
    THEN LowerLetters[CHOOSE k \in 1..Len(UpperLetters) : UpperLetters[k] = c]
    ELSE c

\* str.lower()
LowerText(t) == [k \in 1..Len(t) |-> LowerChar(t[k])]

\* str.lstrip(chars)
RECURSIVE LStrip(_, _)
LStrip(t, chars) ==
    IF t # <<>> /\ Head(t) \in chars THEN LStrip(Tail(t), chars) ELSE t

\* str.rstrip(chars)
RECURSIVE RStrip(_, _)
RStrip(t, chars) ==
    IF t # <<>> /\ t[Len(t)] \in chars THEN RStrip(SubSeq(t, 1, Len(t) - 1), chars) ELSE t

\* str.strip(chars)
StripText(t, chars) == RStrip(LStrip(t, chars), chars)

\* text = (seg.get("text") or "").strip()
SegmentText(seg) == StripText(seg, Whitespace)

\* norm = text.lower().strip(" \t\r\n.,!?;:\"'()[]{}")
NormText(t) == StripText(LowerText(t), DedupeStripChars)

\* a variant of DedupeSkips that compares the texts as they are
DedupeSkipsExact(last, text) == text = last

\* if norm == last: ... return
DedupeSkips(last, text) == NormText(text) = NormText(last)

\* _on_segment gets as far as self.on_text(text)
OnSegmentEmits(last, seg) ==
    /\ SegmentText(seg) # <<>>
    /\ ~DedupeSkips(last, SegmentText(seg))

\* self._last_emitted after _on_segment(seg)
OnSegmentLast(last, seg) == IF OnSegmentEmits(last, seg) THEN SegmentText(seg) ELSE last

\* self._last_emitted after the segments segs, one _on_segment each
RECURSIVE LastAfter(_, _)
LastAfter(last, segs) ==
    IF segs = <<>> THEN last ELSE LastAfter(OnSegmentLast(last, Head(segs)), Tail(segs))

\* the on_text calls made for the segments segs
RECURSIVE TextCalls(_, _)
TextCalls(last, segs) ==
    IF segs = <<>> THEN <<>>
    ELSE (IF OnSegmentEmits(last, Head(segs))
          THEN <<[cb |-> "text", arg |-> SegmentText(Head(segs))]>> ELSE <<>>)
         \o TextCalls(OnSegmentLast(last, Head(segs)), Tail(segs))

\* ------------------------------------------------------------------
\* State
\* ------------------------------------------------------------------

\* the most MicrophoneCapture objects, Collector threads and Worker
\* threads (one of each per start()) of a run
MaxObjs == 2

\* the most caller threads
MaxCallers == 2

Objs == 1..MaxObjs

Callers == 1..MaxCallers

VARIABLES
    params,             \* LiveParams, as the byte and chunk counts derived from it
    env,                \* the microphone signal and the bounds of the run
    running,            \* LiveTranscriber._running
    stop_event,         \* LiveTranscriber._stop_event
    ring,               \* LiveTranscriber._ring
    transcribe_q,       \* LiveTranscriber._transcribe_q
    started_emitting,   \* LiveTranscriber._started_emitting
    last_emitted,       \* LiveTranscriber._last_emitted
    capture,            \* LiveTranscriber._capture (0: None)
    collector_thread,   \* LiveTranscriber._collector_thread (0: None)
    transcribe_thread,  \* LiveTranscriber._transcribe_thread (0: None)
    cap,                \* the MicrophoneCapture objects and their threads
    col,                \* the Collector threads: position and locals
    wrk,                \* the Worker threads: position and locals
    call,               \* the caller threads: position in start() / stop(), locals
    stream,             \* offset of the next byte the microphone delivers
    nstart,             \* start() calls that went past the _running test
    pushed,             \* history: every Snapshot put into _transcribe_q
    heard,              \* history: every Snapshot a Worker took, and whether it
                        \* handed it to the Transcriber
    callbacks,          \* history: the calls of on_text, and the calls of
                        \* on_status that report a failure of a thread
    backlog_dropped,    \* history: offsets removed by the backlog protection
    late,               \* history: a join(timeout=...) returned on its timeout
    clock,              \* time.time(), in ticks
    last_status_ts,     \* LiveTranscriber._last_status_ts
    thr,                \* the Collector and the Worker at their throttled status
                        \* reports: position and locals
    cb_raised           \* history: the positions in callbacks of the calls that
                        \* raised an exception

vars == <<params, env, running, stop_event, ring, transcribe_q, started_emitting,
          last_emitted, capture, collector_thread, transcribe_thread, cap, col, wrk,
          call, stream, nstart, pushed, heard, callbacks, backlog_dropped, late,
          clock, last_status_ts, thr, cb_raised>>

cfgVars == <<params, env>>

\* the dedupe state and what went to the caller's callbacks
outVars == <<last_emitted, callbacks, cb_raised>>

\* the throttle of the status reports
throttleVars == <<clock, last_status_ts, thr>>

\* status_interval_s, in ticks of the clock
StatusIntervalTicks == 2

\* the threads that report through _throttled_status
ThrottleThreads == {"collector", "worker"}

\* a thread outside its report.  entered: the Collector's own reading
\* "now" (line 349), last_stat: the Collector's local last_stat, now: the
\* reading of _throttled_status
ThrNew == [pc |-> "idle", entered |-> 0, last_stat |-> StatusIntervalTicks, now |-> 0]

\* self._last_status_ts = 0.0; the clock stands at a time past the epoch,
\* at which the Collector sets last_stat = time.time()
InitThrottleVars ==
    /\ clock = StatusIntervalTicks
    /\ last_status_ts = 0
    /\ thr = [th \in ThrottleThreads |-> ThrNew]
    /\ cb_raised = {}

threadRefs == <<capture, collector_thread, transcribe_thread>>

history == <<pushed, heard, backlog_dropped, late>>

CapNew == [running |-> FALSE, audio_queue |-> <<>>, pc |-> "new"]

ColNew == [pc |-> "new", drop |-> 0, mark |-> 0, data |-> <<>>, snapshot |-> <<>>]

WrkNew == [pc |-> "new", pcm_bytes |-> <<>>]

CallNew == [pc |-> "idle", data |-> <<>>, ring_len |-> 0, flush_bytes |-> <<>>,
            obj |-> 0, enq |-> 0]

\* a variant of LogStatus without the try statement around on_status
LogStatusUnguarded(raises) == IF raises THEN "raised" ELSE "returned"

\* _log_status: try: self.on_status(msg)  except Exception: pass
\* what the thread that reports a status sees of a callback that raises
LogStatus(raises) == "returned"

\* _on_segment: try: self.on_text(text)  except Exception as e: (logged)
OnText(raises) == "returned"

\* the positions of the callbacks a step adds, all of which raised if raises
RaisedBy(raises, added) ==
    IF raises THEN (Len(callbacks) + 1)..(Len(callbacks) + Len(added)) ELSE {}

\* LiveTranscriber.__init__
InitLive ==
    /\ running = FALSE
    /\ stop_event = FALSE
    /\ ring = <<>>
    /\ transcribe_q = <<>>
    /\ started_emitting = FALSE
    /\ last_emitted = <<>>
    /\ capture = 0
    /\ collector_thread = 0
    /\ transcribe_thread = 0
    /\ cap = [k \in Objs |-> CapNew]
    /\ col = [k \in Objs |-> ColNew]
    /\ wrk = [k \in Objs |-> WrkNew]
    /\ call = [t \in Callers |-> CallNew]
    /\ stream = 0
    /\ nstart = 0
    /\ pushed = <<>>
    /\ heard = <<>>
    /\ callbacks = <<>>
    /\ InitThrottleVars
    /\ backlog_dropped = {}
    /\ late = FALSE

\* ------------------------------------------------------------------
\* MicrophoneCapture._capture_loop
\* ------------------------------------------------------------------

\* while self._running:
\* (a capture thread that is running when the microphone signal of the run
\* has ended stays blocked in stream.read until it is told to stop)
CaptureLoop(k) ==
    /\ cap[k].pc = "loop"
    /\ cap[k].running => \E n \in env.sizes : stream + n <= env.stream_max
    /\ cap' = [cap EXCEPT ![k].pc = IF cap[k].running THEN "read" ELSE "exit"]
    /\ UNCHANGED <<cfgVars, throttleVars, outVars, running, stop_event, ring, transcribe_q, started_emitting,
                   threadRefs, col, wrk, call, stream, nstart, history>>

\* data = stream.read(...); self.audio_queue.put(data)
CaptureRead(k) ==
    /\ cap[k].pc = "read"
    /\ \E n \in env.sizes, a \in env.amps :
        /\ stream + n <= env.stream_max
        /\ cap' = [cap EXCEPT ![k].pc = "loop",
                              ![k].audio_queue =
                                  Append(@, IF n = 0 THEN <<>> ELSE <<Run(stream, stream + n, a)>>)]
        /\ stream' = stream + n
    /\ UNCHANGED <<cfgVars, throttleVars, outVars, running, stop_event, ring, transcribe_q, started_emitting,
                   threadRefs, col, wrk, call, nstart, history>>

\* ------------------------------------------------------------------
\* queue.Queue
\* ------------------------------------------------------------------

\* put_nowait raises queue.Full when qsize() >= maxsize
QueueFull(q, maxsize) == Len(q) >= maxsize

\* a variant of DropOldest that takes the newest entry off the queue
DropNewest(q) == IF q = <<>> THEN <<>> ELSE SubSeq(q, 1, Len(q) - 1)

\* "Drop oldest": _ = self._transcribe_q.get_nowait(), queue.Empty passed over
DropOldest(q) == IF q = <<>> THEN <<>> ELSE Tail(q)

\* ------------------------------------------------------------------
\* LiveTranscriber._collector_loop
\* ------------------------------------------------------------------

\* while self._running and not self._stop_event.is_set():
CollectorLoop(i) ==
    /\ col[i].pc = "c_loop"
    /\ col' = [col EXCEPT ![i].pc = IF running /\ ~stop_event THEN "c_backlog" ELSE "exit"]
    /\ UNCHANGED <<cfgVars, throttleVars, outVars, running, stop_event, ring, transcribe_q, started_emitting,
                   threadRefs, cap, wrk, call, stream, nstart, history>>

\* a variant of BacklogDrop that cuts the backlog down to max_backlog_chunks
BacklogDropToMax(qsize, max_backlog_chunks) == qsize - max_backlog_chunks

\* drop = qsize - (p.max_backlog_chunks // 2)
BacklogDrop(qsize, max_backlog_chunks) == qsize - (max_backlog_chunks \div 2)

\* qsize = self._capture.audio_queue.qsize(); if qsize > p.max_backlog_chunks: ...
CollectorBacklog(i) ==
    /\ col[i].pc = "c_backlog"
    /\ LET qsize == Len(cap[capture].audio_queue)
       IN  col' = [col EXCEPT
                     ![i].pc = IF qsize > params.max_backlog_chunks THEN "c_drop" ELSE "c_get",
                     ![i].drop = IF qsize > params.max_backlog_chunks
                                 THEN BacklogDrop(qsize, params.max_backlog_chunks) ELSE 0,
                     ![i].mark = IF qsize > params.max_backlog_chunks THEN stream ELSE 0]
    /\ UNCHANGED <<cfgVars, throttleVars, outVars, running, stop_event, ring, transcribe_q, started_emitting,
                   threadRefs, cap, wrk, call, stream, nstart, history>>

\* for _ in range(drop): get_nowait(), break on any exception
CollectorDrop(i) ==
    /\ col[i].pc = "c_drop"
    /\ LET q == cap[capture].audio_queue
       IN  IF col[i].drop > 0 /\ q # <<>>
           THEN /\ cap' = [cap EXCEPT ![capture].audio_queue = Tail(q)]
                /\ col' = [col EXCEPT ![i].drop = @ - 1]
                /\ backlog_dropped' = backlog_dropped \cup BOffsets(Head(q))
           ELSE /\ col' = [col EXCEPT ![i].drop = 0, ![i].pc = "c_get"]
                /\ UNCHANGED <<cap, backlog_dropped>>
    /\ UNCHANGED <<cfgVars, throttleVars, outVars, running, stop_event, ring, transcribe_q, started_emitting,
                   threadRefs, wrk, call, stream, nstart, pushed, heard, late>>

\* data = self._capture.audio_queue.get(timeout=p.queue_timeout_s)
\* if not data: continue        (queue.Empty on timeout: continue)
CollectorGet(i) ==
    /\ col[i].pc = "c_get"
    /\ LET q == cap[capture].audio_queue
       IN  IF q # <<>>
           THEN /\ cap' = [cap EXCEPT ![capture].audio_queue = Tail(q)]
                /\ col' = [col EXCEPT ![i].data = Head(q),
                                      ![i].pc = IF Head(q) = <<>> THEN "c_loop" ELSE "c_append"]
           ELSE /\ col' = [col EXCEPT ![i].pc = "c_loop"]
                /\ UNCHANGED cap
    /\ UNCHANGED <<cfgVars, throttleVars, outVars, running, stop_event, ring, transcribe_q, started_emitting,
                   threadRefs, wrk, call, stream, nstart, history>>

\* with self._ring_lock: self._ring.extend(data); ring_len = len(self._ring)
\* ... if ring_len >= window_bytes:
\* An exception other than queue.Empty in the loop body (here: raised by
\* the extend) is logged, reported if self._running ("Live-Collector-Fehler:
\* ..."), and ends the loop with break.
CollectorAppend(i) ==
    /\ col[i].pc = "c_append"
    /\ \/ /\ ring' = BConcat(ring, col[i].data)
          /\ col' = [col EXCEPT ![i].data = <<>>,
                                ![i].pc = IF BLen(ring') >= params.window_bytes
                                          THEN "c_extract" ELSE "c_loop"]
          /\ UNCHANGED <<callbacks, cb_raised>>
       \/ /\ env.collector_fails
          /\ col' = [col EXCEPT ![i].data = <<>>, ![i].pc = "exit"]
          /\ \E raises \in {FALSE, env.callback_fails} :
               LET added == IF running
                            THEN <<[cb |-> "status", arg |-> <<"collector", i>>]>>
                            ELSE <<>>
               IN  /\ callbacks' = callbacks \o added
                   /\ cb_raised' = cb_raised \cup RaisedBy(raises, added)
          /\ UNCHANGED ring
    /\ UNCHANGED <<cfgVars, throttleVars, last_emitted, running, stop_event, transcribe_q, started_emitting,
                   threadRefs, cap, wrk, call, stream, nstart, history>>

\* snapshot = bytes(self._ring[-window_bytes:])
WindowSnapshot(r, window_bytes) == SliceTail(r, window_bytes)

\* a variant of OverlapTail that keeps nothing of the window in the ring
OverlapDiscarded(r, overlap_bytes) == <<>>

\* a variant of OverlapTail without the test overlap_bytes > 0: it keeps
\* r[-0:], the whole ring, when there is no overlap
OverlapTailUnguarded(r, overlap_bytes) == SliceTail(r, overlap_bytes)

\* self._ring = bytearray(self._ring[-overlap_bytes:]) if overlap_bytes > 0
\* else bytearray()
OverlapTail(r, overlap_bytes) ==
    IF overlap_bytes > 0 THEN SliceTail(r, overlap_bytes) ELSE <<>>

\* with self._ring_lock: snapshot = ...; self._ring = ...
CollectorExtract(i) ==
    /\ col[i].pc = "c_extract"
    /\ col' = [col EXCEPT ![i].snapshot = WindowSnapshot(ring, params.window_bytes),
                          ![i].pc = "c_put"]
    /\ ring' = OverlapTail(ring, params.overlap_bytes)
    /\ UNCHANGED <<cfgVars, throttleVars, outVars, running, stop_event, transcribe_q, started_emitting,
                   threadRefs, cap, wrk, call, stream, nstart, history>>

\* self._transcribe_q.put_nowait(snapshot)    except queue.Full: ...
CollectorPut(i) ==
    /\ col[i].pc = "c_put"
    /\ IF QueueFull(transcribe_q, params.maxsize)
       THEN /\ col' = [col EXCEPT ![i].pc = "c_evict"]
            /\ UNCHANGED <<transcribe_q, pushed>>
       ELSE /\ transcribe_q' = Append(transcribe_q, col[i].snapshot)
            /\ pushed' = Append(pushed, [by |-> "collector", pcm |-> col[i].snapshot])
            /\ col' = [col EXCEPT ![i].pc = "c_loop", ![i].snapshot = <<>>]
    /\ UNCHANGED <<cfgVars, throttleVars, outVars, running, stop_event, ring, started_emitting,
                   threadRefs, cap, wrk, call, stream, nstart, heard, backlog_dropped, late>>

\* Drop oldest: _ = self._transcribe_q.get_nowait()    except Exception: pass
CollectorEvict(i) ==
    /\ col[i].pc = "c_evict"
    /\ transcribe_q' = DropOldest(transcribe_q)
    /\ col' = [col EXCEPT ![i].pc = "c_retry"]
    /\ UNCHANGED <<cfgVars, throttleVars, outVars, running, stop_event, ring, started_emitting,
                   threadRefs, cap, wrk, call, stream, nstart, history>>

\* and retry: self._transcribe_q.put_nowait(snapshot)
\* except Exception: "Collector could not queue snapshot (queue full)"
CollectorRetry(i) ==
    /\ col[i].pc = "c_retry"
    /\ IF QueueFull(transcribe_q, params.maxsize)
       THEN UNCHANGED <<transcribe_q, pushed>>
       ELSE /\ transcribe_q' = Append(transcribe_q, col[i].snapshot)
            /\ pushed' = Append(pushed, [by |-> "collector", pcm |-> col[i].snapshot])
    /\ col' = [col EXCEPT ![i].pc = "c_loop", ![i].snapshot = <<>>]
    /\ UNCHANGED <<cfgVars, throttleVars, outVars, running, stop_event, ring, started_emitting,
                   threadRefs, cap, wrk, call, stream, nstart, heard, backlog_dropped, late>>

\* ------------------------------------------------------------------
\* LiveTranscriber._transcribe_loop
\* ------------------------------------------------------------------

\* while (not self._stop_event.is_set()) ...
WorkerLoop(i) ==
    /\ wrk[i].pc = "w_loop"
    /\ wrk' = [wrk EXCEPT ![i].pc = IF ~stop_event THEN "w_get" ELSE "w_empty"]
    /\ UNCHANGED <<cfgVars, throttleVars, outVars, running, stop_event, ring, transcribe_q, started_emitting,
                   threadRefs, cap, col, call, stream, nstart, history>>

\* ... or (not self._transcribe_q.empty()):
WorkerEmpty(i) ==
    /\ wrk[i].pc = "w_empty"
    /\ wrk' = [wrk EXCEPT ![i].pc = IF transcribe_q # <<>> THEN "w_get" ELSE "exit"]
    /\ UNCHANGED <<cfgVars, throttleVars, outVars, running, stop_event, ring, transcribe_q, started_emitting,
                   threadRefs, cap, col, call, stream, nstart, history>>

\* pcm_bytes = self._transcribe_q.get(timeout=0.2)   (queue.Empty: continue)
\* if not pcm_bytes: continue
WorkerGet(i) ==
    /\ wrk[i].pc = "w_get"
    /\ IF transcribe_q # <<>>
       THEN /\ transcribe_q' = Tail(transcribe_q)
            /\ IF Head(transcribe_q) = <<>>
               THEN /\ wrk' = [wrk EXCEPT ![i].pc = "w_loop"]
                    /\ heard' = Append(heard, [by |-> i, pcm |-> <<>>, transcribed |-> FALSE, segs |-> <<>>])
               ELSE /\ wrk' = [wrk EXCEPT ![i].pcm_bytes = Head(transcribe_q),
                                          ![i].pc = "w_gate"]
                    /\ UNCHANGED heard
       ELSE /\ wrk' = [wrk EXCEPT ![i].pc = "w_loop"]
            /\ UNCHANGED <<transcribe_q, heard>>
    /\ UNCHANGED <<cfgVars, throttleVars, outVars, running, stop_event, ring, started_emitting,
                   threadRefs, cap, col, call, stream, nstart, pushed, backlog_dropped, late>>

\* Start-Gate, then Silence-Gate
WorkerGate(i) ==
    /\ wrk[i].pc = "w_gate"
    /\ IF StartGateSkips(started_emitting, wrk[i].pcm_bytes)
       THEN /\ wrk' = [wrk EXCEPT ![i].pc = "w_loop", ![i].pcm_bytes = <<>>]
            /\ heard' = Append(heard, [by |-> i, pcm |-> wrk[i].pcm_bytes, transcribed |-> FALSE, segs |-> <<>>])
            /\ UNCHANGED started_emitting
       ELSE /\ started_emitting' = TRUE
            /\ IF SilenceGateSkips(wrk[i].pcm_bytes)
               THEN /\ wrk' = [wrk EXCEPT ![i].pc = "w_loop", ![i].pcm_bytes = <<>>]
                    /\ heard' = Append(heard, [by |-> i, pcm |-> wrk[i].pcm_bytes,
                                               transcribed |-> FALSE, segs |-> <<>>])
               ELSE /\ wrk' = [wrk EXCEPT ![i].pc = "w_transcribe"]
                    /\ UNCHANGED heard
    /\ UNCHANGED <<cfgVars, throttleVars, outVars, running, stop_event, ring, transcribe_q,
                   threadRefs, cap, col, call, stream, nstart, pushed, backlog_dropped, late>>

\* write the WAV, self._transcriber.transcribe_file(tmp_path), which calls
\* _on_segment for every segment it finds; an exception of any of this is
\* logged and reported ("Live: Transkriptionsfehler: ..."), and the loop
\* goes on
\* a variant of AfterTranscribe in which the exception leaves the loop
AfterTranscribeUncaught(fails) == IF fails THEN "exit" ELSE "w_loop"

\* where the Worker stands after the try statement: "except Exception" handles
\* the failure and the while loop goes on, as it does after a success
AfterTranscribe(fails) == "w_loop"

WorkerTranscribe(i) ==
    /\ wrk[i].pc = "w_transcribe"
    /\ \E segs \in env.segments, fails \in {FALSE, env.transcribe_fails},
          raises \in {FALSE, env.callback_fails} :
         LET texts  == TextCalls(last_emitted, segs)
             \* a failure of on_text that left _on_segment would end
             \* transcribe_file as a failure of the Transcriber does
             failed == fails \/ (texts # <<>> /\ OnText(raises) = "raised")
             added  == texts \o (IF failed
                                 THEN <<[cb |-> "status", arg |-> <<"worker", i>>]>>
                                 ELSE <<>>)
         IN  /\ last_emitted' = LastAfter(last_emitted, segs)
             /\ callbacks' = callbacks \o added
             /\ cb_raised' = cb_raised \cup RaisedBy(raises, added)
             /\ heard' = Append(heard, [by |-> i, pcm |-> wrk[i].pcm_bytes,
                                        transcribed |-> TRUE, segs |-> segs])
             \* a failure of on_status that left _log_status would leave the
             \* except clause and end the thread
             /\ wrk' = [wrk EXCEPT ![i].pc = IF failed /\ LogStatus(raises) = "raised"
                                             THEN "exit" ELSE AfterTranscribe(failed),
                                   ![i].pcm_bytes = <<>>]
    /\ UNCHANGED <<cfgVars, throttleVars, running, stop_event, ring, transcribe_q, started_emitting,
                   threadRefs, cap, col, call, stream, nstart, pushed, backlog_dropped, late>>

\* ------------------------------------------------------------------
\* LiveTranscriber._throttled_status, as the Collector calls it after an
\* append (lines 349-357) and the Worker after its Start-Gate (lines
\* 435-436, log_audio_level set).  The reports change nothing of the
\* pipeline; thr[th] is the position of thread th inside its report.
\* ------------------------------------------------------------------

\* time passes
Tick ==
    /\ clock < env.clock_max
    /\ clock' = clock + 1
    /\ UNCHANGED <<cfgVars, last_status_ts, thr, outVars, running, stop_event, ring,
                   transcribe_q, started_emitting, threadRefs, cap, col, wrk, call,
                   stream, nstart, history>>

\* Collector: now = time.time(); if now - last_stat >= p.status_interval_s:
\*            self._throttled_status(...)
\* Worker:    if p.log_audio_level: self._throttled_status(...)
ThrottleEnter(th) ==
    /\ thr[th].pc = "idle"
    /\ th = "collector" => clock - thr[th].last_stat >= StatusIntervalTicks
    /\ thr' = [thr EXCEPT ![th].pc = "t_now", ![th].entered = clock]
    /\ UNCHANGED <<cfgVars, clock, last_status_ts, outVars, running, stop_event, ring,
                   transcribe_q, started_emitting, threadRefs, cap, col, wrk, call,
                   stream, nstart, history>>

\* now = time.time()
ThrottleNow(th) ==
    /\ thr[th].pc = "t_now"
    /\ thr' = [thr EXCEPT ![th].pc = "t_check", ![th].now = clock]
    /\ UNCHANGED <<cfgVars, clock, last_status_ts, outVars, running, stop_event, ring,
                   transcribe_q, started_emitting, threadRefs, cap, col, wrk, call,
                   stream, nstart, history>>

\* now - self._last_status_ts >= self.params.status_interval_s
ThrottleDue(now, last) == now - last >= StatusIntervalTicks

\* if now - self._last_status_ts >= ...: (else return; the Collector then
\* sets last_stat = now, its own reading)
ThrottleCheck(th) ==
    /\ thr[th].pc = "t_check"
    /\ thr' = IF ThrottleDue(thr[th].now, last_status_ts)
              THEN [thr EXCEPT ![th].pc = "t_set"]
              ELSE [thr EXCEPT ![th].pc = "idle", ![th].last_stat = thr[th].entered]
    /\ UNCHANGED <<cfgVars, clock, last_status_ts, outVars, running, stop_event, ring,
                   transcribe_q, started_emitting, threadRefs, cap, col, wrk, call,
                   stream, nstart, history>>

\* self._last_status_ts = now
ThrottleSet(th) ==
    /\ thr[th].pc = "t_set"
    /\ last_status_ts' = thr[th].now
    /\ thr' = [thr EXCEPT ![th].pc = "t_emit"]
    /\ UNCHANGED <<cfgVars, clock, outVars, running, stop_event, ring,
                   transcribe_q, started_emitting, threadRefs, cap, col, wrk, call,
                   stream, nstart, history>>

\* self._log_status(msg): the callback is recorded with the time "now" that
\* _throttled_status read for it
\* (a failure of on_status that left _log_status would end the thread)
ThrottleEmit(th) ==
    /\ thr[th].pc = "t_emit"
    /\ \E raises \in {FALSE, env.callback_fails} :
         LET added == <<[cb |-> "status", arg |-> <<"throttled", th, thr[th].now>>]>>
         IN  /\ callbacks' = callbacks \o added
             /\ cb_raised' = cb_raised \cup RaisedBy(raises, added)
             /\ thr' = [thr EXCEPT ![th].pc = IF LogStatus(raises) = "raised"
                                             THEN "exit" ELSE "idle",
                                   ![th].last_stat = thr[th].entered]
    /\ UNCHANGED <<cfgVars, clock, last_status_ts, last_emitted, running, stop_event, ring,
                   transcribe_q, started_emitting, threadRefs, cap, col, wrk, call,
                   stream, nstart, history>>

\* ------------------------------------------------------------------
\* LiveTranscriber.stop
\* ------------------------------------------------------------------

\* if not self._running: return
StopCall(t) ==
    /\ call[t].pc = "idle"
    /\ t \in env.callers
    /\ call' = [call EXCEPT ![t].pc = IF running THEN "s_capture" ELSE "idle",
                            ![t].enq = IF running THEN stream ELSE @]
    /\ UNCHANGED <<cfgVars, throttleVars, outVars, running, stop_event, ring, transcribe_q, started_emitting,
                   threadRefs, cap, col, wrk, stream, nstart, history>>

\* 1) self._capture.stop(): self._running = False, ...
StopCapture(t) ==
    /\ call[t].pc = "s_capture"
    /\ cap' = IF capture # 0 THEN [cap EXCEPT ![capture].running = FALSE] ELSE cap
    /\ call' = [call EXCEPT ![t].pc = IF capture # 0 THEN "s_capture_join" ELSE "s_flush",
                            ![t].obj = capture]
    /\ UNCHANGED <<cfgVars, throttleVars, outVars, running, stop_event, ring, transcribe_q, started_emitting,
                   threadRefs, col, wrk, stream, nstart, history>>

\* ... self._thread.join(timeout=2): returns when the capture thread has
\* ended, or on the timeout
StopCaptureJoin(t) ==
    /\ call[t].pc = "s_capture_join"
    /\ \/ /\ cap[call[t].obj].pc = "exit"
          /\ UNCHANGED late
       \/ /\ cap[call[t].obj].pc # "exit"
          /\ "capture" \in env.timeouts
          /\ late' = TRUE
    /\ call' = [call EXCEPT ![t].pc = IF capture # 0 THEN "s_drain" ELSE "s_flush",
                            ![t].obj = 0]
    /\ UNCHANGED <<cfgVars, throttleVars, outVars, running, stop_event, ring, transcribe_q, started_emitting,
                   threadRefs, cap, col, wrk, stream, nstart, pushed, heard, backlog_dropped>>

\* 2) data = self._capture.audio_queue.get_nowait(); if not data: continue
\* (queue.Empty ends the loop)
StopDrain(t) ==
    /\ call[t].pc = "s_drain"
    /\ LET q == cap[capture].audio_queue
       IN  IF q # <<>>
           THEN /\ cap' = [cap EXCEPT ![capture].audio_queue = Tail(q)]
                /\ call' = [call EXCEPT ![t].data = Head(q),
                                        ![t].pc = IF Head(q) = <<>> THEN "s_drain" ELSE "s_extend"]
           ELSE /\ call' = [call EXCEPT ![t].pc = "s_flush"]
                /\ UNCHANGED cap
    /\ UNCHANGED <<cfgVars, throttleVars, outVars, running, stop_event, ring, transcribe_q, started_emitting,
                   threadRefs, col, wrk, stream, nstart, history>>

\* with self._ring_lock: self._ring.extend(data)
StopExtend(t) ==
    /\ call[t].pc = "s_extend"
    /\ ring' = BConcat(ring, call[t].data)
    /\ call' = [call EXCEPT ![t].data = <<>>, ![t].pc = "s_drain"]
    /\ UNCHANGED <<cfgVars, throttleVars, outVars, running, stop_event, transcribe_q, started_emitting,
                   threadRefs, cap, col, wrk, stream, nstart, history>>

\* flush_bytes = bytes(self._ring) if ring_len >= min_flush_bytes, else b""
FlushBytes(r, min_flush_bytes) == IF BLen(r) >= min_flush_bytes THEN r ELSE <<>>

\* 3) with self._ring_lock: ring_len = len(self._ring); ...; self._ring = bytearray()
StopFlush(t) ==
    /\ call[t].pc = "s_flush"
    /\ call' = [call EXCEPT ![t].ring_len = BLen(ring),
                            ![t].flush_bytes = FlushBytes(ring, params.min_flush_bytes),
                            ![t].pc = "s_gate"]
    /\ ring' = <<>>
    /\ UNCHANGED <<cfgVars, throttleVars, outVars, running, stop_event, transcribe_q, started_emitting,
                   threadRefs, cap, col, wrk, stream, nstart, history>>

\* Flush-Silence-Gate: if flush_bytes: ... flush_bytes = b"" when too silent
StopGate(t) ==
    /\ call[t].pc = "s_gate"
    /\ \E raises \in {FALSE, env.callback_fails} :
         LET keep  == call[t].flush_bytes # <<>> /\ ~FlushTooSilent(call[t].flush_bytes)
             \* self._log_status("Live: Skip flush (too silent, ...)")
             added == IF call[t].flush_bytes # <<>> /\ ~keep
                      THEN <<[cb |-> "status", arg |-> <<"skip flush", t>>]>>
                      ELSE <<>>
         IN  /\ callbacks' = callbacks \o added
             /\ cb_raised' = cb_raised \cup RaisedBy(raises, added)
             \* a failure of on_status that left _log_status would leave stop()
             /\ call' = [call EXCEPT ![t].flush_bytes = IF keep THEN @ ELSE <<>>,
                                     ![t].pc = IF keep THEN "s_put"
                                               ELSE IF added # <<>> /\ LogStatus(raises) = "raised"
                                                    THEN "idle" ELSE "s_running"]
    /\ UNCHANGED <<cfgVars, throttleVars, last_emitted, running, stop_event, ring, transcribe_q,
                   started_emitting, threadRefs, cap, col, wrk, stream, nstart, history>>

\* self._transcribe_q.put_nowait(flush_bytes)    except queue.Full: ...
StopPut(t) ==
    /\ call[t].pc = "s_put"
    /\ IF QueueFull(transcribe_q, params.maxsize)
       THEN /\ call' = [call EXCEPT ![t].pc = "s_evict"]
            /\ UNCHANGED <<transcribe_q, pushed>>
       ELSE /\ transcribe_q' = Append(transcribe_q, call[t].flush_bytes)
            /\ pushed' = Append(pushed, [by |-> "stop", pcm |-> call[t].flush_bytes])
            /\ call' = [call EXCEPT ![t].pc = "s_running", ![t].flush_bytes = <<>>]
    /\ UNCHANGED <<cfgVars, throttleVars, outVars, running, stop_event, ring, started_emitting,
                   threadRefs, cap, col, wrk, stream, nstart, heard, backlog_dropped, late>>

\* _ = self._transcribe_q.get_nowait()    except Exception: pass
StopEvict(t) ==
    /\ call[t].pc = "s_evict"
    /\ transcribe_q' = DropOldest(transcribe_q)
    /\ call' = [call EXCEPT ![t].pc = "s_retry"]
    /\ UNCHANGED <<cfgVars, throttleVars, outVars, running, stop_event, ring, started_emitting,
                   threadRefs, cap, col, wrk, stream, nstart, history>>

\* self._transcribe_q.put_nowait(flush_bytes)
\* except Exception as e: "Error queueing flush chunk"
StopRetry(t) ==
    /\ call[t].pc = "s_retry"
    /\ IF QueueFull(transcribe_q, params.maxsize)
       THEN UNCHANGED <<transcribe_q, pushed>>
       ELSE /\ transcribe_q' = Append(transcribe_q, call[t].flush_bytes)
            /\ pushed' = Append(pushed, [by |-> "stop", pcm |-> call[t].flush_bytes])
    /\ call' = [call EXCEPT ![t].pc = "s_running", ![t].flush_bytes = <<>>]
    /\ UNCHANGED <<cfgVars, throttleVars, outVars, running, stop_event, ring, started_emitting,
                   threadRefs, cap, col, wrk, stream, nstart, heard, backlog_dropped, late>>

\* 4) self._running = False
StopClearRunning(t) ==
    /\ call[t].pc = "s_running"
    /\ running' = FALSE
    /\ call' = [call EXCEPT ![t].pc = "s_event"]
    /\ UNCHANGED <<cfgVars, throttleVars, outVars, stop_event, ring, transcribe_q, started_emitting,
                   threadRefs, cap, col, wrk, stream, nstart, history>>

\* self._stop_event.set()
StopSetEvent(t) ==
    /\ call[t].pc = "s_event"
    /\ stop_event' = TRUE
    /\ call' = [call EXCEPT ![t].pc = "s_join_collector"]
    /\ UNCHANGED <<cfgVars, throttleVars, outVars, running, ring, transcribe_q, started_emitting,
                   threadRefs, cap, col, wrk, stream, nstart, history>>

\* if t and t.is_alive(): t.join(timeout=15.0), for the collector thread
StopJoinCollector(t) ==
    /\ call[t].pc = "s_join_collector"
    /\ \/ /\ collector_thread # 0 => col[collector_thread].pc = "exit"
          /\ UNCHANGED late
       \/ /\ collector_thread # 0
          /\ col[collector_thread].pc # "exit"
          /\ "collector" \in env.timeouts
          /\ late' = TRUE
    /\ call' = [call EXCEPT ![t].pc = "s_join_transcribe"]
    /\ UNCHANGED <<cfgVars, throttleVars, outVars, running, stop_event, ring, transcribe_q, started_emitting,
                   threadRefs, cap, col, wrk, stream, nstart, pushed, heard, backlog_dropped>>

\* the same for the transcribe thread; "Live-Transkription gestoppt."
StopJoinTranscribe(t) ==
    /\ call[t].pc = "s_join_transcribe"
    /\ \/ /\ transcribe_thread # 0 => wrk[transcribe_thread].pc = "exit"
          /\ UNCHANGED late
       \/ /\ transcribe_thread # 0
          /\ wrk[transcribe_thread].pc # "exit"
          /\ "transcribe" \in env.timeouts
          /\ late' = TRUE
    /\ call' = [call EXCEPT ![t].pc = "idle", ![t].ring_len = 0, ![t].enq = 0]
    /\ UNCHANGED <<cfgVars, throttleVars, outVars, running, stop_event, ring, transcribe_q, started_emitting,
                   threadRefs, cap, col, wrk, stream, nstart, pushed, heard, backlog_dropped>>

\* ------------------------------------------------------------------
\* LiveTranscriber.start
\* ------------------------------------------------------------------

\* if self._running: return
StartCall(t) ==
    /\ call[t].pc = "idle"
    /\ t \in env.callers
    /\ nstart < env.sessions_max
    /\ IF running
       THEN UNCHANGED <<call, nstart>>
       ELSE /\ nstart' = nstart + 1
            /\ call' = [call EXCEPT ![t].pc = "st_running", ![t].obj = nstart + 1]
    /\ UNCHANGED <<cfgVars, throttleVars, outVars, running, stop_event, ring, transcribe_q, started_emitting,
                   threadRefs, cap, col, wrk, stream, history>>

\* self._running = True
StartSetRunning(t) ==
    /\ call[t].pc = "st_running"
    /\ running' = TRUE
    /\ call' = [call EXCEPT ![t].pc = "st_event"]
    /\ UNCHANGED <<cfgVars, throttleVars, outVars, stop_event, ring, transcribe_q, started_emitting,
                   threadRefs, cap, col, wrk, stream, nstart, history>>

\* self._stop_event.clear()
StartClearEvent(t) ==
    /\ call[t].pc = "st_event"
    /\ stop_event' = FALSE
    /\ call' = [call EXCEPT ![t].pc = "st_ring"]
    /\ UNCHANGED <<cfgVars, throttleVars, outVars, running, ring, transcribe_q, started_emitting,
                   threadRefs, cap, col, wrk, stream, nstart, history>>

\* with self._ring_lock: self._ring = bytearray()
StartResetRing(t) ==
    /\ call[t].pc = "st_ring"
    /\ ring' = <<>>
    /\ call' = [call EXCEPT ![t].pc = "st_capture"]
    /\ UNCHANGED <<cfgVars, throttleVars, outVars, running, stop_event, transcribe_q, started_emitting,
                   threadRefs, cap, col, wrk, stream, nstart, history>>

\* self._capture = MicrophoneCapture(...); self._capture.start()
StartCapture(t) ==
    /\ call[t].pc = "st_capture"
    /\ capture' = call[t].obj
    /\ cap' = [cap EXCEPT ![call[t].obj] = [running |-> TRUE, audio_queue |-> <<>>, pc |-> "loop"]]
    /\ call' = [call EXCEPT ![t].pc = "st_preload"]
    /\ UNCHANGED <<cfgVars, throttleVars, outVars, running, stop_event, ring, transcribe_q, started_emitting,
                   collector_thread, transcribe_thread, col, wrk, stream, nstart, history>>

\* self._transcriber = WhisperXTranscriber(...); self._transcriber.preload()
\* (an exception of preload() leaves start())
StartPreload(t) ==
    /\ call[t].pc = "st_preload"
    /\ \/ call' = [call EXCEPT ![t].pc = "st_threads"]
       \/ /\ env.preload_fails
          /\ call' = [call EXCEPT ![t].pc = "idle", ![t].obj = 0]
    /\ UNCHANGED <<cfgVars, throttleVars, outVars, running, stop_event, ring, transcribe_q, started_emitting,
                   threadRefs, cap, col, wrk, stream, nstart, history>>

\* the two threading.Thread(...) objects and their start()
StartThreads(t) ==
    /\ call[t].pc = "st_threads"
    /\ collector_thread' = call[t].obj
    /\ transcribe_thread' = call[t].obj
    /\ col' = [col EXCEPT ![call[t].obj].pc = "c_loop"]
    /\ wrk' = [wrk EXCEPT ![call[t].obj].pc = "w_loop"]
    /\ call' = [call EXCEPT ![t].pc = "idle", ![t].obj = 0]
    /\ UNCHANGED <<cfgVars, throttleVars, outVars, running, stop_event, ring, transcribe_q, started_emitting,
                   capture, cap, stream, nstart, history>>

\* ------------------------------------------------------------------
\* The pipeline
\* ------------------------------------------------------------------

Capture == \E k \in Objs : CaptureLoop(k) \/ CaptureRead(k)

Collector ==
    \E i \in Objs :
        \/ CollectorLoop(i) \/ CollectorBacklog(i) \/ CollectorDrop(i)
        \/ CollectorGet(i) \/ CollectorAppend(i) \/ CollectorExtract(i)
        \/ CollectorPut(i) \/ CollectorEvict(i) \/ CollectorRetry(i)

Worker ==
    \E i \in Objs :
        \/ WorkerLoop(i) \/ WorkerEmpty(i) \/ WorkerGet(i)
        \/ WorkerGate(i) \/ WorkerTranscribe(i)

Stop ==
    \E t \in Callers :
        \/ StopCall(t) \/ StopCapture(t) \/ StopCaptureJoin(t)
        \/ StopDrain(t) \/ StopExtend(t) \/ StopFlush(t) \/ StopGate(t)
        \/ StopPut(t) \/ StopEvict(t) \/ StopRetry(t)
        \/ StopClearRunning(t) \/ StopSetEvent(t)
        \/ StopJoinCollector(t) \/ StopJoinTranscribe(t)

Start ==
    \E t \in Callers :
        \/ StartCall(t) \/ StartSetRunning(t) \/ StartClearEvent(t)
        \/ StartResetRing(t) \/ StartCapture(t) \/ StartPreload(t) \/ StartThreads(t)

Next == Capture \/ Collector \/ Worker \/ Stop \/ Start

\* the signal of a run: at most MaxStream bytes, in chunks of one sample
MaxStream == 8

\* Queue(maxsize=20) of _transcribe_q, scaled to the run
QueueMaxsize == 2

\* One session of loud audio: a caller starts the pipeline and stops it at
\* any moment, all threads interleaved; a join may return on its timeout.
Init ==
    /\ InitLive
    /\ params = [window_bytes |-> 4, overlap_bytes |-> 2, min_flush_bytes |-> 2,
                 max_backlog_chunks |-> 2, maxsize |-> QueueMaxsize]
    /\ env = [sizes |-> {2}, amps |-> {2000}, stream_max |-> MaxStream,
              sessions_max |-> 1, callers |-> {1},
              timeouts |-> {"capture", "collector", "transcribe"},
              preload_fails |-> FALSE, segments |-> {<<>>},
              transcribe_fails |-> FALSE, collector_fails |-> FALSE,
              callback_fails |-> FALSE, clock_max |-> StatusIntervalTicks]

Spec == Init /\ [][Next]_vars

\* ------------------------------------------------------------------
\* Helpers of the properties
\* ------------------------------------------------------------------

\* the byte strings of a history
Pcms(log) == [k \in 1..Len(log) |-> log[k].pcm]

\* the last n elements of a sequence (all of it when it is shorter)
LastN(q, n) == IF n >= Len(q) THEN q ELSE SubSeq(q, Len(q) - n + 1, Len(q))

\* the pushes of the Collector ("collector") or of stop() ("stop")
PushedBy(who) == {k \in 1..Len(pushed) : pushed[k].by = who}

\* the stream offsets of the first k Snapshots pushed
RECURSIVE PushedOffsets(_)
PushedOffsets(k) ==
    IF k = 0 THEN {} ELSE BOffsets(pushed[k].pcm) \cup PushedOffsets(k - 1)

\* the stream offsets of the Snapshots the Collectors have extracted and
\* not yet pushed
InHandOffsets == UNION {BOffsets(col[i].snapshot) : i \in Objs}

\* positions of stop() after its flush step / after its push of the flush
AfterFlush == {"s_gate", "s_put", "s_evict", "s_retry", "s_running", "s_event",
               "s_join_collector", "s_join_transcribe"}

AfterFlushPush == {"s_running", "s_event", "s_join_collector", "s_join_transcribe"}

\* ------------------------------------------------------------------
\* Windowing without stop(): the Collector alone works on the ring
\* ------------------------------------------------------------------

\* the signal of a windowing run, in bytes
WindowMaxStream == 10

\* window and overlap sizes with 0 <= overlap_bytes <= window_bytes, chunks
\* of one or two samples
InitWindow ==
    /\ InitLive
    /\ params \in {[window_bytes |-> w, overlap_bytes |-> o, min_flush_bytes |-> 2,
                    max_backlog_chunks |-> 2, maxsize |-> QueueMaxsize] :
                       w \in {4, 6}, o \in {0, 2, 4, 6}}
    /\ params.overlap_bytes <= params.window_bytes
    /\ env = [sizes |-> {2, 4}, amps |-> {2000}, stream_max |-> WindowMaxStream,
              sessions_max |-> 1, callers |-> {1}, timeouts |-> {},
              preload_fails |-> FALSE, segments |-> {<<>>},
              transcribe_fails |-> FALSE, collector_fails |-> FALSE,
              callback_fails |-> FALSE, clock_max |-> StatusIntervalTicks]

\* no stop(): the stop signal is never set, so the Worker never gets to test
\* the queue for emptiness
WorkerUnstopped ==
    \E i \in Objs :
        WorkerLoop(i) \/ WorkerGet(i) \/ WorkerGate(i) \/ WorkerTranscribe(i)

NextWindow == Capture \/ Collector \/ WorkerUnstopped \/ Start

SpecWindow == InitWindow /\ [][NextWindow]_vars

\* C1 (window extraction law).  With no stop() running and
\* 0 <= overlap_bytes <= window_bytes: the Collector extracts only from a
\* ring of at least window_bytes bytes; the Snapshot it extracts is exactly
\* the last window_bytes bytes of the ring and is window_bytes long; right
\* after the extraction the ring holds exactly the last overlap_bytes bytes
\* of that Snapshot (nothing when overlap_bytes = 0); and the Snapshot the
\* Collector then puts into the queue is that Snapshot.
C1_WindowExtractionLaw ==
    [][\A i \in Objs :
         /\ (col[i].pc = "c_extract" /\ col'[i].pc = "c_put") =>
              /\ BLen(ring) >= params.window_bytes
              /\ col'[i].snapshot = BLast(ring, params.window_bytes)
              /\ BLen(col'[i].snapshot) = params.window_bytes
              /\ ring' = BLast(col'[i].snapshot, params.overlap_bytes)
              /\ BLen(ring') = params.overlap_bytes
         /\ (col[i].pc \in {"c_put", "c_retry"} /\ pushed' # pushed) =>
              /\ pushed' = Append(pushed, [by |-> "collector", pcm |-> col[i].snapshot])
              /\ BLen(col[i].snapshot) = params.window_bytes]_vars

\* a second or later window has been extracted, cut out of a longer ring,
\* and its overlap tail is what the ring holds
C1_Witness ==
    \E i \in Objs :
        /\ col[i].pc = "c_put"
        /\ params.overlap_bytes > 0
        /\ col[i].snapshot # <<>>
        /\ col[i].snapshot[1].lo > 0
        /\ BLen(col[i].snapshot) = params.window_bytes
        /\ BLen(ring) = params.overlap_bytes

\* ------------------------------------------------------------------
\* One session with stop() at any moment (Spec)
\* ------------------------------------------------------------------

\* C2 (window extraction atomic with respect to stop()).  Every Snapshot the
\* Collector has pushed is exactly window_bytes long, also when stop() runs
\* concurrently.  (Runs in which a join of stop() returned on its timeout
\* are left out.)
C2_CollectorSnapshotIsWindow ==
    ~late => \A k \in PushedBy("collector") : BLen(pushed[k].pcm) = params.window_bytes

\* C3 (graceful stop loses no buffered audio).  At the step in which stop()
\* takes its flush decision, every byte the source had enqueued when stop()
\* was called and that backlog protection did not remove is in the ring, in
\* a Snapshot already pushed, or in a Snapshot the Collector has extracted;
\* and once stop() has extracted and cleared the ring, no step of that
\* stop() call leaves anything in the ring.
C3_StopLosesNoBufferedAudio ==
    [][~late' => \A t \in Callers :
         /\ (call[t].pc = "s_flush" /\ call'[t].pc = "s_gate") =>
              ((0 .. (call[t].enq - 1)) \ backlog_dropped)
                 \subseteq (BOffsets(ring) \cup PushedOffsets(Len(pushed)) \cup InHandOffsets)
         /\ (call[t].pc \in AfterFlush) => ring' = <<>>]_vars

\* C4 (the Worker drains the queue before exiting).  Once the Worker has
\* exited, the hand-off queue is empty and stays empty: no Snapshot is left
\* in it unconsumed.
C4_QueueEmptyAfterWorkerExit ==
    ~late => \A i \in Objs : wrk[i].pc = "exit" => transcribe_q = <<>>

\* C6 (drop-oldest push atomic under concurrency).  Under every
\* interleaving, a push discards a queued Snapshot only when the queue is
\* full at that moment, and the push always inserts the new Snapshot: the
\* retry after the eviction succeeds.
C6_DropOldestAtomic ==
    [][~late' =>
         /\ \A i \in Objs :
              /\ (col[i].pc = "c_evict" /\ col'[i].pc = "c_retry") =>
                   QueueFull(transcribe_q, params.maxsize)
              /\ (col[i].pc = "c_retry" /\ col'[i].pc = "c_loop") =>
                   Len(pushed') = Len(pushed) + 1
         /\ \A t \in Callers :
              /\ (call[t].pc = "s_evict" /\ call'[t].pc = "s_retry") =>
                   QueueFull(transcribe_q, params.maxsize)
              /\ (call[t].pc = "s_retry" /\ call'[t].pc = "s_running") =>
                   Len(pushed') = Len(pushed) + 1]_vars

\* C7 (graceful-stop flush threshold).  stop()'s flush step leaves the ring
\* empty; and when stop() has finished its flush, a ring that held exactly
\* min_flush_bytes - 1 bytes has led to no flush Snapshot, and a ring that
\* held exactly min_flush_bytes bytes of loud audio has led to exactly one
\* flush Snapshot, of min_flush_bytes bytes.
C7_FlushThreshold ==
    [][~late' => \A t \in Callers :
         /\ (call[t].pc = "s_flush" /\ call'[t].pc = "s_gate") => ring' = <<>>
         /\ (call[t].pc \in {"s_gate", "s_put", "s_retry"} /\ call'[t].pc = "s_running") =>
              /\ call[t].ring_len = params.min_flush_bytes - 1 => PushedBy("stop")' = {}
              /\ ( /\ call[t].ring_len = params.min_flush_bytes
                   /\ call[t].flush_bytes # <<>>
                   /\ ~FlushTooSilent(call[t].flush_bytes) ) =>
                   \E k \in 1..Len(pushed') :
                      /\ PushedBy("stop")' = {k}
                      /\ BLen(pushed'[k].pcm) = params.min_flush_bytes]_vars

\* C9 (Snapshot size invariant).  Every Snapshot put into the hand-off queue
\* is either a window of the Collector, exactly window_bytes long, or the
\* flush Snapshot of stop(), shorter than window_bytes.
C9_SnapshotSizes ==
    ~late => \A k \in 1..Len(pushed) :
        \/ pushed[k].by = "collector" /\ BLen(pushed[k].pcm) = params.window_bytes
        \/ pushed[k].by = "stop" /\ BLen(pushed[k].pcm) < params.window_bytes

\* ------------------------------------------------------------------
\* One push into the hand-off queue, nothing else running (SpecPush)
\* ------------------------------------------------------------------

\* the windows the Collector has pushed before the push looked at
PushMaxWindows == 4

\* the k-th window of a signal of constant amplitude a
NthWindow(k, a) ==
    LET step == params.window_bytes - params.overlap_bytes
    IN  <<Run((k - 1) * step, (k - 1) * step + params.window_bytes, a)>>

\* the Collector's pushes of the first n windows
WindowsPushed(n, a) == [k \in 1..n |-> [by |-> "collector", pcm |-> NthWindow(k, a)]]

\* The pipeline after n windows of a steady signal went into the queue with
\* the Worker not yet scheduled (start() done, all chunks read and consumed),
\* at the moment of the next push: either the Collector holds window n + 1
\* before its put_nowait, or stop() has drained and flushed the ring and
\* holds the flush before its put_nowait.
InitPush ==
    /\ params \in {[window_bytes |-> 4, overlap_bytes |-> o, min_flush_bytes |-> 2,
                    max_backlog_chunks |-> 2, maxsize |-> QueueMaxsize] : o \in {0, 2}}
    /\ \E a \in {100, 2000} :
         /\ env = [sizes |-> {2}, amps |-> {a}, stream_max |-> 0,
                   sessions_max |-> 1, callers |-> {1}, timeouts |-> {},
                   preload_fails |-> FALSE, segments |-> {<<>>},
              transcribe_fails |-> FALSE, collector_fails |-> FALSE,
              callback_fails |-> FALSE, clock_max |-> StatusIntervalTicks]
         /\ \E n \in 0..PushMaxWindows, byStop \in BOOLEAN :
              LET step == params.window_bytes - params.overlap_bytes
                  fed  == IF byStop THEN n * step + params.overlap_bytes + 2
                                    ELSE n * step + params.window_bytes
                  tail == <<Run(n * step, fed, a)>>
              IN  /\ stream = fed
                  /\ pushed = WindowsPushed(n, a)
                  /\ transcribe_q = LastN(Pcms(pushed), params.maxsize)
                  /\ ring = IF byStop THEN <<>>
                            ELSE OverlapTail(NthWindow(n + 1, a), params.overlap_bytes)
                  /\ cap = [k \in Objs |->
                              IF k = 1 THEN [running |-> ~byStop, audio_queue |-> <<>>,
                                             pc |-> IF byStop THEN "exit" ELSE "loop"]
                                       ELSE CapNew]
                  /\ col = [i \in Objs |->
                              IF i = 1 THEN [pc |-> IF byStop THEN "c_loop" ELSE "c_put",
                                             drop |-> 0, mark |-> 0, data |-> <<>>,
                                             snapshot |-> IF byStop THEN <<>>
                                                          ELSE NthWindow(n + 1, a)]
                                       ELSE ColNew]
                  /\ call = [t \in Callers |->
                              IF t = 1 /\ byStop
                              THEN [pc |-> "s_put", data |-> <<>>, ring_len |-> BLen(tail),
                                    flush_bytes |-> tail, obj |-> 0, enq |-> fed]
                              ELSE CallNew]
    /\ running = TRUE
    /\ stop_event = FALSE
    /\ started_emitting = FALSE
    /\ last_emitted = <<>>
    /\ capture = 1
    /\ collector_thread = 1
    /\ transcribe_thread = 1
    /\ wrk = [i \in Objs |-> IF i = 1 THEN [pc |-> "w_loop", pcm_bytes |-> <<>>] ELSE WrkNew]
    /\ nstart = 1
    /\ heard = <<>>
    /\ callbacks = <<>>
    /\ InitThrottleVars
    /\ backlog_dropped = {}
    /\ late = FALSE

\* the push of the Collector and the push of stop(), with no Worker step and
\* no step of the other pusher
NextPush ==
    \/ \E i \in Objs : CollectorPut(i) \/ CollectorEvict(i) \/ CollectorRetry(i)
    \/ \E t \in Callers : StopPut(t) \/ StopEvict(t) \/ StopRetry(t)

SpecPush == InitPush /\ [][NextPush]_vars

\* C5 (drop-oldest push, sequential).  With no concurrent pop or push, a
\* push of a Snapshot by the Collector or by stop()'s flush into a full
\* queue of capacity C raises no error: after the eviction the retry inserts
\* the Snapshot, and the queue then holds exactly its C - 1 newest prior
\* entries in their order followed by the new Snapshot.
C5_DropOldestSequential ==
    [][/\ \A i \in Objs :
            /\ (col[i].pc = "c_put" /\ col'[i].pc = "c_evict") =>
                 Len(transcribe_q) = params.maxsize
            /\ (col[i].pc = "c_retry" /\ col'[i].pc = "c_loop") =>
                 /\ pushed' = Append(pushed, [by |-> "collector", pcm |-> col[i].snapshot])
                 /\ Len(pushed) >= params.maxsize
                 /\ transcribe_q' =
                      Append(LastN(Pcms(pushed), params.maxsize - 1), col[i].snapshot)
       /\ \A t \in Callers :
            /\ (call[t].pc = "s_put" /\ call'[t].pc = "s_evict") =>
                 Len(transcribe_q) = params.maxsize
            /\ (call[t].pc = "s_retry" /\ call'[t].pc = "s_running") =>
                 /\ pushed' = Append(pushed, [by |-> "stop", pcm |-> call[t].flush_bytes])
                 /\ Len(pushed) >= params.maxsize
                 /\ transcribe_q' =
                      Append(LastN(Pcms(pushed), params.maxsize - 1), call[t].flush_bytes)]_vars

\* stop()'s flush has gone into a queue that was full of distinct windows:
\* the oldest of them is gone, the flush is the last entry
C5_Witness ==
    /\ call[1].pc = "s_running"
    /\ Len(pushed) > params.maxsize + 1
    /\ pushed[Len(pushed)].by = "stop"
    /\ Len(transcribe_q) = params.maxsize
    /\ transcribe_q[1] = pushed[Len(pushed) - params.maxsize + 1].pcm
    /\ transcribe_q[1] # pushed[Len(pushed) - params.maxsize].pcm
    /\ transcribe_q[Len(transcribe_q)] = pushed[Len(pushed)].pcm

\* ------------------------------------------------------------------
\* The default LiveParams, 6.0 s of loud audio, then stop() (SpecE2E)
\* ------------------------------------------------------------------

\* LiveParams.sample_rate
SampleRate == 16000

\* LiveParams.channels
Channels == 1

\* LiveParams.window_seconds = 5.0, in milliseconds
WindowMs == 5000

\* LiveParams.overlap_seconds = 1.5, in milliseconds
OverlapMs == 1500

\* LiveParams.capture_chunk_ms
CaptureChunkMs == 100

\* LiveParams.min_flush_seconds = 0.6, in milliseconds
MinFlushMs == 600

\* LiveParams.max_backlog_chunks
MaxBacklogChunks == 200

\* queue.Queue(maxsize=20)
TranscribeQMaxsize == 20

\* int(p.sample_rate * seconds * p.sampwidth_bytes * p.channels),
\* int(p.min_flush_seconds * sample_bytes_per_sec)
SecondsToBytes(ms) == (SampleRate * ms * SampWidth * Channels) \div 1000

\* self.chunk_size = int(sample_rate * chunk_duration_ms / 1000) frames of
\* paInt16, channels=1
ChunkBytes == ((SampleRate * CaptureChunkMs) \div 1000) * SampWidth

\* the chunks the source delivers: 6.0 s
FeedChunks == 60

\* the amplitude of the loud signal
LoudAmp == 2000

InitE2E ==
    /\ InitLive
    /\ params = [window_bytes |-> SecondsToBytes(WindowMs),
                 overlap_bytes |-> SecondsToBytes(OverlapMs),
                 min_flush_bytes |-> SecondsToBytes(MinFlushMs),
                 max_backlog_chunks |-> MaxBacklogChunks,
                 maxsize |-> TranscribeQMaxsize]
    /\ env = [sizes |-> {ChunkBytes}, amps |-> {LoudAmp},
              stream_max |-> FeedChunks * ChunkBytes,
              sessions_max |-> 1, callers |-> {1}, timeouts |-> {},
              preload_fails |-> FALSE, segments |-> {<<>>},
              transcribe_fails |-> FALSE, collector_fails |-> FALSE,
              callback_fails |-> FALSE, clock_max |-> StatusIntervalTicks]

\* the source has delivered all its chunks and the Collector has taken all
\* of them into the ring and has pushed what it had extracted
AllFedAndCollected ==
    /\ capture # 0
    /\ collector_thread # 0
    /\ stream = env.stream_max
    /\ cap[capture].audio_queue = <<>>
    /\ col[collector_thread].pc \in {"c_loop", "c_backlog", "c_get"}

\* stop() called after the feed
StopAfterFeed(t) == AllFedAndCollected /\ StopCall(t)

\* The steps that occur: the backlog never exceeds max_backlog_chunks, the
\* queue never fills, stop() finds nothing left to drain.
NextE2E ==
    \/ Capture
    \/ \E i \in Objs :
         \/ CollectorLoop(i) \/ CollectorBacklog(i) \/ CollectorGet(i)
         \/ CollectorAppend(i) \/ CollectorExtract(i) \/ CollectorPut(i)
    \/ Worker
    \/ Start
    \/ \E t \in Callers :
         \/ StopAfterFeed(t) \/ StopCapture(t) \/ StopCaptureJoin(t)
         \/ StopDrain(t) \/ StopFlush(t) \/ StopGate(t) \/ StopPut(t)
         \/ StopClearRunning(t) \/ StopSetEvent(t)
         \/ StopJoinCollector(t) \/ StopJoinTranscribe(t)

SpecE2E == InitE2E /\ [][NextE2E]_vars

\* stop() has got past the push of its flush
FlushDone == stop_event \/ \E t \in Callers : call[t].pc \in AfterFlushPush

\* C8 as amended (end-to-end windowing scenario).  With the default
\* parameters (window_bytes 160000, overlap_bytes 48000, 100 ms chunks,
\* min_flush_bytes 19200), 6.0 s of loud audio fed and taken in by the
\* Collector, and stop() called then: exactly one window of 160000 bytes is
\* pushed by the Collector, the bytes 0..160000 of the signal, followed by
\* exactly one flush Snapshot; the flush Snapshot is the whole ring, the
\* 48000 overlap bytes kept from the window followed by the remaining audio,
\* 80000 bytes for 6.0 s.
C8_EndToEnd ==
    /\ Len(pushed) <= 2
    /\ FlushDone =>
         /\ Len(pushed) = 2
         /\ pushed[1] = [by |-> "collector",
                         pcm |-> <<Run(0, params.window_bytes, LoudAmp)>>]
         /\ pushed[2] = [by |-> "stop",
                         pcm |-> <<Run(params.window_bytes - params.overlap_bytes,
                                       env.stream_max, LoudAmp)>>]
         /\ BLen(pushed[2].pcm) =
              params.overlap_bytes + (env.stream_max - params.window_bytes)
         /\ (params.window_bytes = 160000 /\ params.overlap_bytes = 48000
               /\ env.stream_max = 192000) => BLen(pushed[2].pcm) = 80000

\* the session is over: both Snapshots were pushed and the Worker has
\* transcribed both
C8_Witness ==
    /\ stop_event
    /\ \A t \in Callers : call[t].pc = "idle"
    /\ Len(pushed) = 2
    /\ Len(heard) = 2
    /\ \A k \in 1..2 : heard[k].transcribed /\ heard[k].pcm = pushed[k].pcm

\* C8 as stated.  Feeding 6.0 s and then calling stop() pushes one window of
\* window_bytes bytes followed by one flush Snapshot, and the flush Snapshot
\* consists of the remaining 1.0 s of audio: it is as long as the signal
\* past the window (32000 bytes).
C8_FlushIsRemainder ==
    FlushDone =>
        /\ Len(pushed) = 2
        /\ pushed[1].by = "collector"
        /\ BLen(pushed[1].pcm) = params.window_bytes
        /\ pushed[2].by = "stop"
        /\ BLen(pushed[2].pcm) = env.stream_max - params.window_bytes

\* ------------------------------------------------------------------
\* Two sessions on one LiveTranscriber (SpecSessions)
\* ------------------------------------------------------------------

\* the signal of the two sessions together, in bytes
SessionsMaxStream == 4

\* start(), stop() and start() again by one caller; each chunk is loud
\* (amplitude 2000) or quiet (amplitude 100: below the start threshold,
\* above the silence thresholds); one chunk is one window; the Transcriber
\* finds no segment in a Snapshot, or one segment of text "a"
InitSessions ==
    /\ InitLive
    /\ params = [window_bytes |-> 2, overlap_bytes |-> 0, min_flush_bytes |-> 2,
                 max_backlog_chunks |-> 1, maxsize |-> 1]
    /\ env = [sizes |-> {2}, amps |-> {100, 2000}, stream_max |-> SessionsMaxStream,
              sessions_max |-> 2, callers |-> {1}, timeouts |-> {},
              preload_fails |-> FALSE, segments |-> {<<>>, << <<"a">> >>},
              transcribe_fails |-> FALSE, collector_fails |-> FALSE,
              callback_fails |-> FALSE, clock_max |-> StatusIntervalTicks]

SpecSessions == InitSessions /\ [][Next]_vars

\* a Snapshot exceeds the start threshold: not (peak < 1500 and rms < 120)
ExceedsStartThreshold(b) == ~StartGateSkips(FALSE, b)

\* what the Worker of session i took from the queue, in order
HeardBy(i) == SelectSeq(heard, LAMBDA h : h.by = i)

\* C10 (StartGate).  In a session whose first M Snapshots are all below the
\* start threshold, Snapshots 1..M never reach the Transcriber: a Snapshot
\* the Worker of a session takes from the queue before any Snapshot of that
\* session has exceeded the start threshold is not transcribed.
C10_StartGate ==
    \A i \in Objs :
        LET h == HeardBy(i)
        IN  \A k \in 1..Len(h) :
                (\A j \in 1..k : ~ExceedsStartThreshold(h[j].pcm)) => ~h[k].transcribed

\* C12 (per-session state is reset at session start).  When a start() that
\* begins a session has started the threads of the session, the StartGate
\* latch is closed and the emitted-text state of the dedupe is empty.
C12_SessionStateReset ==
    [][\A t \in Callers :
         (call[t].pc = "st_threads" /\ call'[t].pc = "idle") =>
            /\ ~started_emitting'
            /\ last_emitted' = <<>>]_vars

\* ------------------------------------------------------------------
\* The gates of the Worker on one Snapshot (SpecSilenceGate)
\* ------------------------------------------------------------------

\* the samples of the Snapshot gated
GateSamples == 200

\* the sample amplitudes: around the silence thresholds (80, 900), around
\* the start thresholds (120, 1500), silence and loud
GateAmps == {0, 79, 80, 119, 120, 899, 900, 1499, 1500, 2000}

\* the lengths, in samples, of the first part of the Snapshot
GateSplits == {1, 2, 100}

\* A running session in which nothing is pending at the source and the
\* Collector waits for the next chunk.
SessionRunning ==
    /\ running = TRUE
    /\ stop_event = FALSE
    /\ ring = <<>>
    /\ capture = 1
    /\ collector_thread = 1
    /\ transcribe_thread = 1
    /\ cap = [k \in Objs |->
                IF k = 1 THEN [running |-> TRUE, audio_queue |-> <<>>, pc |-> "loop"]
                         ELSE CapNew]
    /\ col = [i \in Objs |-> IF i = 1 THEN [ColNew EXCEPT !.pc = "c_loop"] ELSE ColNew]
    /\ call = [t \in Callers |-> CallNew]
    /\ nstart = 1
    /\ backlog_dropped = {}
    /\ late = FALSE

\* a buffer of n samples from stream offset lo on: the first k of amplitude
\* a1, the others of amplitude a2
TwoPart(lo, n, k, a1, a2) ==
    BConcat(<<Run(lo, lo + k * SampWidth, a1)>>,
            <<Run(lo + k * SampWidth, lo + n * SampWidth, a2)>>)

\* The Worker has taken a window from the queue and stands before its
\* gates.  Either this is the first window of the session (latch closed),
\* or a loud window came before it and was transcribed (latch open).
InitSilenceGate ==
    /\ SessionRunning
    /\ params = [window_bytes |-> GateSamples * SampWidth, overlap_bytes |-> 0,
                 min_flush_bytes |-> 2, max_backlog_chunks |-> 2, maxsize |-> QueueMaxsize]
    /\ env = [sizes |-> {2}, amps |-> GateAmps, stream_max |-> 0,
              sessions_max |-> 1, callers |-> {1}, timeouts |-> {},
              preload_fails |-> FALSE, segments |-> {<<>>},
              transcribe_fails |-> FALSE, collector_fails |-> FALSE,
              callback_fails |-> FALSE, clock_max |-> StatusIntervalTicks]
    /\ \E open \in BOOLEAN, k \in GateSplits, a1 \in GateAmps, a2 \in GateAmps :
         LET w     == params.window_bytes
             first == <<Run(0, w, 2000)>>
             lo    == IF open THEN w ELSE 0
             b     == TwoPart(lo, GateSamples, k, a1, a2)
         IN  /\ started_emitting = open
             /\ stream = lo + w
             /\ pushed = (IF open THEN <<[by |-> "collector", pcm |-> first]>> ELSE <<>>)
                            \o <<[by |-> "collector", pcm |-> b]>>
             /\ heard = IF open THEN <<[by |-> 1, pcm |-> first, transcribed |-> TRUE,
                                        segs |-> <<>>]>>
                                ELSE <<>>
             /\ wrk = [i \in Objs |-> IF i = 1 THEN [pc |-> "w_gate", pcm_bytes |-> b]
                                               ELSE WrkNew]
    /\ transcribe_q = <<>>
    /\ last_emitted = <<>>
    /\ callbacks = <<>>
    /\ InitThrottleVars

\* the Worker alone, with no stop()
NextSilenceGate == WorkerUnstopped

SpecSilenceGate == InitSilenceGate /\ [][NextSilenceGate]_vars

\* the mean of the squared samples of b is below limit^2
MeanSquareBelow(b, limit) == SumSq(b) < limit * limit * NSamples(b)

\* C11 (SilenceGate).  A Snapshot with RMS = 0 and peak = 0 is never passed
\* to the Transcriber.  For a Snapshot that the StartGate lets through (the
\* latch is open after the StartGate): if its peak is >= silence_peak_threshold
\* it goes to the Transcriber whatever its RMS, and in general it is
\* discarded exactly when RMS < silence_rms_threshold and
\* peak < silence_peak_threshold.
C11_SilenceGate ==
    [][\A i \in Objs :
         (wrk[i].pc = "w_gate" /\ wrk'[i].pc # "w_gate") =>
            LET b == wrk[i].pcm_bytes
                discarded == /\ wrk'[i].pc = "w_loop"
                             /\ heard' = Append(heard, [by |-> i, pcm |-> b,
                                                        transcribed |-> FALSE, segs |-> <<>>])
                passed == wrk'[i].pc = "w_transcribe" /\ wrk'[i].pcm_bytes = b
            IN  /\ discarded \/ passed
                /\ (Peak(b) = 0 /\ SumSq(b) = 0) => discarded
                /\ started_emitting' =>
                     /\ Peak(b) >= SilencePeakThreshold => passed
                     /\ discarded <=> ( /\ MeanSquareBelow(b, SilenceRmsThreshold)
                                        /\ Peak(b) < SilencePeakThreshold )]_vars

\* a Snapshot whose RMS is below silence_rms_threshold and whose peak is at
\* least silence_peak_threshold has passed the gates
C11_Witness ==
    \E i \in Objs :
        /\ wrk[i].pc = "w_transcribe"
        /\ started_emitting
        /\ MeanSquareBelow(wrk[i].pcm_bytes, SilenceRmsThreshold)
        /\ Peak(wrk[i].pcm_bytes) >= SilencePeakThreshold

\* ------------------------------------------------------------------
\* The segments of two Snapshots through _on_segment (SpecDedupe)
\* ------------------------------------------------------------------

\* segment texts: "", " ", ".", "a", "A", "a.", " a", "b", "B!"
DedupeTexts ==
    {<<>>, <<" ">>, <<".">>, <<"a">>, <<"A">>, <<"a", ".">>, <<" ", "a">>,
     <<"b">>, <<"B", "!">>}

\* what the Transcriber finds in one Snapshot: no segment, one, or two
DedupeSegments ==
    {<<>>} \cup {<<t>> : t \in DedupeTexts}
           \cup {<<t1, t2>> : t1 \in DedupeTexts, t2 \in DedupeTexts}

\* The first session of a LiveTranscriber: two loud windows were pushed, the
\* Worker has taken the first and stands before its gates, the second is in
\* the queue; nothing was emitted yet.
InitDedupe ==
    /\ SessionRunning
    /\ params = [window_bytes |-> 4, overlap_bytes |-> 0, min_flush_bytes |-> 2,
                 max_backlog_chunks |-> 2, maxsize |-> QueueMaxsize]
    /\ env = [sizes |-> {2}, amps |-> {2000}, stream_max |-> 0,
              sessions_max |-> 1, callers |-> {1}, timeouts |-> {},
              preload_fails |-> FALSE, segments |-> DedupeSegments,
              transcribe_fails |-> FALSE, collector_fails |-> FALSE,
              callback_fails |-> FALSE, clock_max |-> StatusIntervalTicks]
    /\ started_emitting = FALSE
    /\ stream = 2 * params.window_bytes
    /\ pushed = [k \in 1..2 |->
                   [by |-> "collector",
                    pcm |-> <<Run((k - 1) * params.window_bytes, k * params.window_bytes, 2000)>>]]
    /\ heard = <<>>
    /\ wrk = [i \in Objs |-> IF i = 1 THEN [pc |-> "w_gate", pcm_bytes |-> pushed[1].pcm]
                                      ELSE WrkNew]
    /\ transcribe_q = <<pushed[2].pcm>>
    /\ last_emitted = <<>>
    /\ callbacks = <<>>
    /\ InitThrottleVars

SpecDedupe == InitDedupe /\ [][WorkerUnstopped]_vars

\* the segments of the Snapshot transcribed in this step
StepSegs == heard'[Len(heard')].segs

\* the calls of the caller's callbacks made in this step
StepCalls == SubSeq(callbacks', Len(callbacks) + 1, Len(callbacks'))

\* this step is the Transcriber call of Worker i, and finds two segments
\* with non-empty text
TranscribesPair(i) ==
    /\ wrk[i].pc = "w_transcribe"
    /\ wrk'[i].pc = "w_loop"
    /\ Len(StepSegs) = 2
    /\ SegmentText(StepSegs[1]) # <<>>
    /\ SegmentText(StepSegs[2]) # <<>>

\* C13 (dedupe idempotence).  When the first two segment texts of a session
\* are non-empty and equal after normalization, the caller's text callback
\* is invoked exactly once for the pair, for the first one.
C13_DedupeIdempotence ==
    [][\A i \in Objs :
         ( /\ TranscribesPair(i)
           /\ heard = <<>>
           /\ NormText(SegmentText(StepSegs[1])) = NormText(SegmentText(StepSegs[2])) ) =>
              StepCalls = <<[cb |-> "text", arg |-> SegmentText(StepSegs[1])]>>]_vars

PendingSince(q, mark) == {k \in 1..Len(q) : q[k] # <<>> /\ q[k][1].lo < mark}

\* this step ends an iteration of Collector i that found more than
\* max_backlog_chunks chunks pending
EndsBacklogIteration(i) ==
    /\ col[i].mark > 0
    /\ col[i].pc \in {"c_get", "c_append", "c_put", "c_retry"}
    /\ col'[i].pc = "c_loop"

\* C15 as amended (backlog protection).  When a Collector iteration begins
\* with K > max_backlog_chunks chunks pending, every chunk the protection
\* removes is the oldest one of the queue; when the removal is done, and
\* still at the end of the iteration, at most max_backlog_chunks / 2 of the
\* chunks that were pending at the beginning are left in the queue.  (The
\* chunks the source enqueues during the iteration come on top.)
C15_BacklogProtection ==
    [][\A i \in Objs :
         LET q  == cap[capture].audio_queue
             q2 == cap'[capture].audio_queue
         IN  /\ (col[i].pc = "c_drop" /\ col'[i].pc = "c_drop" /\ col'[i].drop < col[i].drop) =>
                  /\ q # <<>>
                  /\ q2 = Tail(q)
                  /\ \A k \in 1..Len(q2) : q2[k] # <<>> => q2[k][1].lo >= Head(q)[1].hi
             /\ ( \/ col[i].pc = "c_drop" /\ col'[i].pc = "c_get"
                  \/ EndsBacklogIteration(i) ) =>
                  2 * Cardinality(PendingSince(q2, col[i].mark)) <= params.max_backlog_chunks]_vars

\* an iteration that began with a backlog has ended, chunks were removed,
\* and the source has enqueued since
C15_Witness ==
    \E i \in Objs :
        /\ col[i].pc = "c_loop"
        /\ col[i].mark > 0
        /\ backlog_dropped # {}
        /\ \E k \in 1..Len(cap[capture].audio_queue) :
              cap[capture].audio_queue[k][1].lo >= col[i].mark

\* C15 as stated.  Whenever a Collector iteration begins with
\* K > max_backlog_chunks chunks pending, at the end of that iteration the
\* backlog is <= max_backlog_chunks / 2, also while the source is still
\* enqueuing.
C15_BacklogAtIterationEnd ==
    [][\A i \in Objs :
         EndsBacklogIteration(i) =>
            2 * Len(cap'[capture].audio_queue) <= params.max_backlog_chunks]_vars

\* ------------------------------------------------------------------
\* Failures of the Transcriber and of the Collector's chunk handling
\* and of the caller's callbacks (SpecFaults: one session in which any of
\* them may fail at any time)
\* ------------------------------------------------------------------

FaultsMaxStream == 4

InitFaults ==
    /\ InitLive
    /\ params = [window_bytes |-> 2, overlap_bytes |-> 0, min_flush_bytes |-> 2,
                 max_backlog_chunks |-> 1, maxsize |-> 1]
    /\ env = [sizes |-> {2}, amps |-> {0, 2000}, stream_max |-> FaultsMaxStream,
              sessions_max |-> 1, callers |-> {1}, timeouts |-> {},
              preload_fails |-> TRUE, segments |-> {<<>>, << <<"a">> >>},
              transcribe_fails |-> TRUE, collector_fails |-> TRUE,
              callback_fails |-> TRUE, clock_max |-> StatusIntervalTicks]

SpecFaults == InitFaults /\ [][Next]_vars

\* this step of Worker i is a transcription that failed
TranscribeFailed(i) ==
    /\ wrk[i].pc = "w_transcribe"
    /\ Len(callbacks') = Len(callbacks) + 1
    /\ callbacks'[Len(callbacks')] = [cb |-> "status", arg |-> <<"worker", i>>]

\* C16 (Worker survives Transcriber failures).  A transcription that fails
\* is reported by one status event and leaves the Worker in its loop, from
\* where it goes on to the next Snapshot; the Worker leaves the loop only
\* from the loop condition, with the stop signal set and the hand-off queue
\* empty.
C16_WorkerSurvivesFailures ==
    [][\A i \in Objs :
         /\ TranscribeFailed(i) => wrk'[i].pc = "w_loop"
         /\ wrk[i].pc = "w_loop" =>
               wrk'[i].pc \in {"w_loop"} \cup (IF stop_event THEN {"w_empty"} ELSE {"w_get"})
         /\ (wrk[i].pc # "exit" /\ wrk'[i].pc = "exit") =>
               /\ wrk[i].pc = "w_empty"
               /\ stop_event
               /\ transcribe_q = <<>>]_vars

\* a Worker has reported two failed transcriptions and, with the stop signal
\* unset, is taking a Snapshot again
C16_Witness ==
    \E i \in Objs :
        /\ Cardinality({k \in 1..Len(callbacks) :
                          callbacks[k] = [cb |-> "status", arg |-> <<"worker", i>>]}) >= 2
        /\ ~stop_event
        /\ wrk[i].pc = "w_get"

\* C17 (Collector survives per-chunk failures).  The Collector thread exits
\* only when the running flag is cleared or the stop signal is set.
C17_CollectorSurvivesFailures ==
    [][\A i \in Objs :
         (col[i].pc # "exit" /\ col'[i].pc = "exit") => (~running \/ stop_event)]_vars

\* ------------------------------------------------------------------
\* Order of the Snapshots at the Worker (Spec)
\* ------------------------------------------------------------------

\* the k-th Snapshot the Workers took is a flush Snapshot: stop() pushed it,
\* and no Collector pushed the same bytes
HeardFlush(k) ==
    /\ \E j \in PushedBy("stop") : pushed[j].pcm = heard[k].pcm
    /\ \A m \in PushedBy("collector") : pushed[m].pcm # heard[k].pcm

\* C18 (Snapshot ordering).  The flush Snapshot, when it reaches the Worker,
\* is the last one of the session: the Worker hands no Snapshot to the
\* Transcriber after it.  (Runs in which a join of stop() returned on its
\* timeout are left out.)
C18_FlushIsLastSnapshot ==
    ~late => \A k \in 1..Len(heard) :
                HeardFlush(k) => \A m \in (k + 1)..Len(heard) : ~heard[m].transcribed

\* ------------------------------------------------------------------
\* Two callers of stop() (SpecTwoStops: one session, two threads that may
\* call start() and stop())
\* ------------------------------------------------------------------

TwoStopsMaxStream == 4

InitTwoStops ==
    /\ InitLive
    /\ params = [window_bytes |-> 2, overlap_bytes |-> 0, min_flush_bytes |-> 2,
                 max_backlog_chunks |-> 1, maxsize |-> 1]
    /\ env = [sizes |-> {2}, amps |-> {2000}, stream_max |-> TwoStopsMaxStream,
              sessions_max |-> 1, callers |-> Callers, timeouts |-> {},
              preload_fails |-> FALSE, segments |-> {<<>>},
              transcribe_fails |-> FALSE, collector_fails |-> FALSE,
              callback_fails |-> FALSE, clock_max |-> StatusIntervalTicks]

SpecTwoStops == InitTwoStops /\ [][Next]_vars

\* the positions of a stop() call that has passed "if not self._running"
InStop == {"s_capture", "s_capture_join", "s_drain", "s_extend", "s_flush"} \cup AfterFlush

\* C19 (stop() is a no-op unless Running).  A stop() call made while
\* another stop() is in progress performs no action: at most one call is
\* inside the stop protocol at a time, and at most one flush Snapshot is
\* pushed per session.
C19_StopProtocolAtMostOnce ==
    /\ Cardinality({t \in Callers : call[t].pc \in InStop}) <= 1
    /\ Cardinality(PushedBy("stop")) <= 1

\* ------------------------------------------------------------------
\* The flush silence check of stop() (SpecFlushGate: stop() alone, from its
\* flush step to the stop signal)
\* ------------------------------------------------------------------

\* stop() has stopped the source and drained its queue; the ring holds
\* GateSamples samples, less than a window, that the Collector appended
\* before.  Collector and Worker stand at the head of their loops.
InitFlushGate ==
    /\ params = [window_bytes |-> 2 * GateSamples * SampWidth, overlap_bytes |-> 0,
                 min_flush_bytes |-> 2, max_backlog_chunks |-> 2, maxsize |-> QueueMaxsize]
    /\ env = [sizes |-> {2}, amps |-> GateAmps, stream_max |-> GateSamples * SampWidth,
              sessions_max |-> 1, callers |-> {1}, timeouts |-> {},
              preload_fails |-> FALSE, segments |-> {<<>>},
              transcribe_fails |-> FALSE, collector_fails |-> FALSE,
              callback_fails |-> FALSE, clock_max |-> StatusIntervalTicks]
    /\ running = TRUE
    /\ stop_event = FALSE
    /\ \E k \in GateSplits, a1 \in GateAmps, a2 \in GateAmps :
         ring = TwoPart(0, GateSamples, k, a1, a2)
    /\ stream = GateSamples * SampWidth
    /\ transcribe_q = <<>>
    /\ started_emitting = FALSE
    /\ last_emitted = <<>>
    /\ callbacks = <<>>
    /\ InitThrottleVars
    /\ capture = 1
    /\ collector_thread = 1
    /\ transcribe_thread = 1
    /\ cap = [k \in Objs |->
                IF k = 1 THEN [running |-> FALSE, audio_queue |-> <<>>, pc |-> "exit"]
                         ELSE CapNew]
    /\ col = [i \in Objs |-> IF i = 1 THEN [ColNew EXCEPT !.pc = "c_loop"] ELSE ColNew]
    /\ wrk = [i \in Objs |-> IF i = 1 THEN [WrkNew EXCEPT !.pc = "w_loop"] ELSE WrkNew]
    /\ call = [t \in Callers |->
                 IF t = 1 THEN [CallNew EXCEPT !.pc = "s_flush", !.enq = stream]
                          ELSE CallNew]
    /\ nstart = 1
    /\ pushed = <<>>
    /\ heard = <<>>
    /\ backlog_dropped = {}
    /\ late = FALSE

NextFlushGate ==
    \E t \in Callers :
        \/ StopFlush(t)
        \/ StopGate(t)
        \/ StopPut(t)
        \/ StopClearRunning(t)
        \/ StopSetEvent(t)

SpecFlushGate == InitFlushGate /\ [][NextFlushGate]_vars

\* C20 (the flush check is more permissive than steady-state gating).
\* Every flush buffer that would pass the SilenceGate of the Worker also
\* passes the flush silence check of stop(): stop() goes on to push it.
C20_FlushMorePermissive ==
    [][\A t \in Callers :
         (/\ call[t].pc = "s_gate"
          /\ call'[t].pc # "s_gate"
          /\ call[t].flush_bytes # <<>>
          /\ ~SilenceGateSkips(call[t].flush_bytes)) => call'[t].pc = "s_put"]_vars

\* ------------------------------------------------------------------
\* Status throttling (SpecThrottle: the Collector and the Worker of a
\* running session at their status reports, while time passes)
\* ------------------------------------------------------------------

\* the time a throttling run lasts, in ticks
ThrottleMaxClock == 6

InitThrottle ==
    /\ SessionRunning
    /\ params = [window_bytes |-> 4, overlap_bytes |-> 2, min_flush_bytes |-> 2,
                 max_backlog_chunks |-> 2, maxsize |-> QueueMaxsize]
    /\ env = [sizes |-> {2}, amps |-> {2000}, stream_max |-> 0,
              sessions_max |-> 1, callers |-> {1}, timeouts |-> {},
              preload_fails |-> FALSE, segments |-> {<<>>},
              transcribe_fails |-> FALSE, collector_fails |-> FALSE,
              callback_fails |-> FALSE, clock_max |-> ThrottleMaxClock]
    /\ wrk = [i \in Objs |-> IF i = 1 THEN [WrkNew EXCEPT !.pc = "w_loop"] ELSE WrkNew]
    /\ stream = 0
    /\ transcribe_q = <<>>
    /\ started_emitting = FALSE
    /\ last_emitted = <<>>
    /\ pushed = <<>>
    /\ heard = <<>>
    /\ callbacks = <<>>
    /\ InitThrottleVars

NextThrottle ==
    \/ Tick
    \/ \E th \in ThrottleThreads :
          \/ ThrottleEnter(th)
          \/ ThrottleNow(th)
          \/ ThrottleCheck(th)
          \/ ThrottleSet(th)
          \/ ThrottleEmit(th)

SpecThrottle == InitThrottle /\ [][NextThrottle]_vars

\* C21 (status throttling).  Any two status callbacks issued through the
\* throttler are at least status_interval_s apart, under every
\* interleaving of the Collector and the Worker.  (The time of a callback
\* is the time _throttled_status read for it.)
C21_ThrottledStatusSpacing ==
    \A j \in 1..Len(callbacks), k \in 1..Len(callbacks) :
        (/\ j < k
         /\ callbacks[j].arg[1] = "throttled"
         /\ callbacks[k].arg[1] = "throttled")
           => callbacks[k].arg[3] - callbacks[j].arg[3] >= StatusIntervalTicks

\* ------------------------------------------------------------------
\* Failures of the caller's callbacks (SpecFaults)
\* ------------------------------------------------------------------

FlushPending(t) ==
    /\ call[t].pc \in {"s_gate", "s_put", "s_evict", "s_retry"}
    /\ call[t].flush_bytes # <<>>
    /\ ~FlushTooSilent(call[t].flush_bytes)

\* C23 (stop protocol ordering).  In every execution of stop(): the source
\* is stopped when the drain takes a chunk; the flush decision is reached
\* only from a drain that found the source's queue empty (or with no
\* source at all); the stop signal is set and the running flag cleared only
\* when no flush Snapshot is waiting to be pushed.  Hence a Worker never
\* finds "stop signal set and queue empty" while a flush Snapshot is still
\* to be queued, and once the Worker of the session has exited no flush
\* Snapshot is in the hand-off queue.
C23_StopProtocolOrdering ==
    [][/\ \A t \in Callers :
            /\ (call[t].pc = "s_drain" /\ call'[t].pc = "s_extend") =>
                  ~cap[capture].running
            /\ (call[t].pc # "s_flush" /\ call'[t].pc = "s_flush") =>
                  \/ capture = 0
                  \/ call[t].pc = "s_drain" /\ cap[capture].audio_queue = <<>>
       /\ (running /\ ~running') => \A t \in Callers : ~FlushPending(t)
       /\ (~stop_event /\ stop_event') => \A t \in Callers : ~FlushPending(t)
       /\ \A i \in Objs :
            /\ (wrk[i].pc = "w_empty" /\ wrk'[i].pc = "exit") =>
                  \A t \in Callers : ~FlushPending(t)
            /\ (i = transcribe_thread /\ wrk[i].pc = "exit") =>
                  \A k \in 1..Len(transcribe_q') :
                     \/ \A j \in PushedBy("stop")' : pushed'[j].pcm # transcribe_q'[k]
                     \/ \E m \in PushedBy("collector")' : pushed'[m].pcm = transcribe_q'[k]]_vars

\* ------------------------------------------------------------------
\* Restart (SpecRestart: two sessions on one object; the join of the
\* Worker in stop() may return on its timeout, so that start() can be
\* called while the Worker of the first session is alive)
\* ------------------------------------------------------------------

RestartMaxStream == 2

\* one chunk fills a window; max_backlog_chunks = 0 makes one pending chunk a
\* backlog
InitRestart ==
    /\ InitLive
    /\ params = [window_bytes |-> 2, overlap_bytes |-> 0, min_flush_bytes |-> 2,
                 max_backlog_chunks |-> 0, maxsize |-> 1]
    /\ env = [sizes |-> {2}, amps |-> {2000}, stream_max |-> RestartMaxStream,
              sessions_max |-> 2, callers |-> {1}, timeouts |-> {"transcribe"},
              preload_fails |-> FALSE, segments |-> {<<>>},
              transcribe_fails |-> FALSE, collector_fails |-> FALSE,
              callback_fails |-> FALSE, clock_max |-> StatusIntervalTicks]

SpecRestart == InitRestart /\ [][Next]_vars

\* the threads that are inside their loops
LiveThreads(th) == {i \in Objs : th[i].pc \notin {"new", "exit"}}

\* C26 (single pipeline instance).  Across any sequence of start() and
\* stop() calls on one object, at most one Collector thread and at most one
\* Worker thread are running their loops at any time.
C26_SinglePipelineInstance ==
    /\ Cardinality(LiveThreads(col)) <= 1
    /\ Cardinality(LiveThreads(wrk)) <= 1

\* ------------------------------------------------------------------
\* Shutdown (FairRestart: SpecRestart under fair scheduling)
\* ------------------------------------------------------------------

\* Every thread that can take a step is scheduled in the end: the capture,
\* Collector and Worker threads, and a caller inside start() or stop() (a
\* caller is free never to call start() or stop()); every Transcriber call
\* and every join returns.
FairRestart ==
    /\ SpecRestart
    /\ \A k \in Objs : WF_vars(CaptureLoop(k) \/ CaptureRead(k))
    /\ \A i \in Objs :
         WF_vars(\/ CollectorLoop(i) \/ CollectorBacklog(i) \/ CollectorDrop(i)
                 \/ CollectorGet(i) \/ CollectorAppend(i) \/ CollectorExtract(i)
                 \/ CollectorPut(i) \/ CollectorEvict(i) \/ CollectorRetry(i))
    /\ \A i \in Objs :
         WF_vars(\/ WorkerLoop(i) \/ WorkerEmpty(i) \/ WorkerGet(i)
                 \/ WorkerGate(i) \/ WorkerTranscribe(i))
    /\ \A t \in Callers :
         WF_vars(\/ StopCapture(t) \/ StopCaptureJoin(t)
                 \/ StopDrain(t) \/ StopExtend(t) \/ StopFlush(t) \/ StopGate(t)
                 \/ StopPut(t) \/ StopEvict(t) \/ StopRetry(t)
                 \/ StopClearRunning(t) \/ StopSetEvent(t)
                 \/ StopJoinCollector(t) \/ StopJoinTranscribe(t))
    /\ \A t \in Callers :
         WF_vars(\/ StartSetRunning(t) \/ StartClearEvent(t) \/ StartResetRing(t)
                 \/ StartCapture(t) \/ StartPreload(t) \/ StartThreads(t))

\* C24 (shutdown terminates).  Once stop() has set the stop signal, every
\* Collector and every Worker that is inside its loop eventually exits, and
\* every stop() call eventually returns.
C24_ShutdownTerminates ==
    /\ \A i \in Objs : (stop_event /\ i \in LiveThreads(col)) ~> (col[i].pc = "exit")
    /\ \A i \in Objs : (stop_event /\ i \in LiveThreads(wrk)) ~> (wrk[i].pc = "exit")
    /\ \A t \in Callers : (call[t].pc \in InStop) ~> (call[t].pc = "idle")

\* ------------------------------------------------------------------
\* Audio between windows (SpecWindow)
\* ------------------------------------------------------------------

\* C25 (no audio is skipped between windows in steady state).  With no
\* backlog drop and no stop(), every byte that is in the ring when the
\* Collector extracts a window is in the Snapshot extracted or in a Snapshot
\* pushed before, for every chunk size and every overlap_bytes >= 0.
C25_NoAudioSkipped ==
    [][\A i \in Objs :
         (/\ col[i].pc = "c_extract"
          /\ col'[i].pc = "c_put"
          /\ backlog_dropped = {}) =>
            BOffsets(ring) \subseteq
               (BOffsets(col'[i].snapshot) \cup PushedOffsets(Len(pushed)))]_vars

\* ------------------------------------------------------------------
\* A start() that fails (SpecFaults: the preload of the Transcriber may
\* raise)
\* ------------------------------------------------------------------

\* C27 (a failed start leaves the controller restartable).  When start()
\* raises because the preload fails, the controller is not left Running
\* (so that a later start() is not a no-op), and the audio source that this
\* start() started is not left capturing.
C27_FailedStartRestartable ==
    [][\A t \in Callers :
         (call[t].pc = "st_preload" /\ call'[t].pc = "idle") =>
            /\ ~running'
            /\ capture' # 0 => ~cap'[capture'].running]_vars

\* ------------------------------------------------------------------
\* Order of the ring (Spec: stop()'s drain runs while the Collector still
\* takes chunks from the same queue)
\* ------------------------------------------------------------------

\* C28 (ring contents preserve capture order).  At every moment the bytes
\* of the ring are in the order in which the audio source enqueued them:
\* along the ring the stream offsets only increase, also while stop()'s
\* drain and the Collector both take chunks from the queue and append them.
C28_RingPreservesCaptureOrder ==
    \A k \in 1..(Len(ring) - 1) : ring[k].hi <= ring[k + 1].lo

=============================================================================
